---------------------------- MODULE Spec2Model ----------------------------
(***************************************************************************)
(* Model of the Curve gauge yield trader                                   *)
(* (src/curve/curve-gauge-yield-trader/scripts/agent.py): the transaction  *)
(* builder, the gas and nonce resolver, the signer and the orchestrator    *)
(* run_once with its dry-run / live gates.                                 *)
(***************************************************************************)
EXTENDS Integers, Sequences, FiniteSets, TLC

(***************************************************************************)
(* Arbitrary-precision naturals.  Python integers are unbounded; amounts   *)
(* in wei (50 * 10^18, 2^256 - 1) do not fit a machine word, so they are   *)
(* kept as little-endian sequences of limbs, without leading zero limbs.   *)
(***************************************************************************)
LimbBits == 15

LimbBase == 2 ^ LimbBits

BigZero == << >>

RECURSIVE BigNorm(_)
BigNorm(x) ==
    IF x = << >> THEN << >>
    ELSE IF x[Len(x)] = 0 THEN BigNorm(SubSeq(x, 1, Len(x) - 1))
    ELSE x

RECURSIVE BigFromNat(_)
BigFromNat(n) ==
    IF n = 0 THEN << >>
    ELSE << n % LimbBase >> \o BigFromNat(n \div LimbBase)

RECURSIVE BigMulCarry(_, _, _)
BigMulCarry(x, k, carry) ==
    IF x = << >> THEN BigFromNat(carry)
    ELSE LET t == x[1] * k + carry
         IN  << t % LimbBase >> \o BigMulCarry(Tail(x), k, t \div LimbBase)

\* x * k for a small factor k (k * LimbBase fits a machine word)
BigMulSmall(x, k) == BigNorm(BigMulCarry(x, k, 0))

RECURSIVE BigAddCarry(_, _, _)
BigAddCarry(x, y, carry) ==
    IF x = << >> /\ y = << >> THEN BigFromNat(carry)
    ELSE LET a == IF x = << >> THEN 0 ELSE x[1]
             b == IF y = << >> THEN 0 ELSE y[1]
             t == a + b + carry
         IN  << t % LimbBase >>
             \o BigAddCarry(IF x = << >> THEN x ELSE Tail(x),
                            IF y = << >> THEN y ELSE Tail(y),
                            t \div LimbBase)

BigAdd(x, y) == BigNorm(BigAddCarry(x, y, 0))

RECURSIVE BigMul(_, _)
BigMul(x, y) ==
    IF y = << >> THEN << >>
    ELSE LET rest == BigMul(x, Tail(y))
         IN  BigAdd(BigMulSmall(x, y[1]),
                    IF rest = << >> THEN << >> ELSE << 0 >> \o rest)

\* quotient limbs (most significant first, in acc) and remainder of x / k
RECURSIVE BigDivLoop(_, _, _, _)
BigDivLoop(x, i, k, st) ==
    IF i = 0 THEN st
    ELSE LET t == st.r * LimbBase + x[i]
         IN  BigDivLoop(x, i - 1, k,
                        [q |-> << t \div k >> \o st.q, r |-> t % k])

\* [q |-> x \div k, r |-> x % k] for a small divisor k
BigDivSmall(x, k) ==
    LET st == BigDivLoop(x, Len(x), k, [q |-> << >>, r |-> 0])
    IN  [q |-> BigNorm(st.q), r |-> st.r]

RECURSIVE BigLessFrom(_, _, _)
BigLessFrom(x, y, i) ==
    IF i = 0 THEN FALSE
    ELSE IF x[i] # y[i] THEN x[i] < y[i]
    ELSE BigLessFrom(x, y, i - 1)

BigLess(x, y) ==
    IF Len(x) # Len(y) THEN Len(x) < Len(y) ELSE BigLessFrom(x, y, Len(x))

RECURSIVE BigPow(_, _)
BigPow(b, n) ==
    IF n = 0 THEN << 1 >>
    ELSE IF n % 2 = 1 THEN BigMulSmall(BigPow(b, n - 1), b)
    ELSE LET h == BigPow(b, n \div 2) IN BigMul(h, h)

RECURSIVE NatBitLen(_)
NatBitLen(n) == IF n = 0 THEN 0 ELSE 1 + NatBitLen(n \div 2)

BigBitLen(x) ==
    IF x = << >> THEN 0 ELSE LimbBits * (Len(x) - 1) + NatBitLen(x[Len(x)])

\* x * 2^k
BigShl(x, k) ==
    IF x = << >> THEN << >>
    ELSE [i \in 1..(k \div LimbBits) |-> 0] \o BigMulSmall(x, 2 ^ (k % LimbBits))

\* x \div 2^k, and whether a nonzero bit was shifted out
BigShrTrunc(x, k) ==
    LET limbs == k \div LimbBits
        kept  == IF limbs >= Len(x) THEN << >> ELSE SubSeq(x, limbs + 1, Len(x))
        d     == BigDivSmall(kept, 2 ^ (k % LimbBits))
    IN  [q    |-> d.q,
         lost |-> d.r # 0 \/ \E i \in 1..Len(x) : i <= limbs /\ x[i] # 0]

\* x shifted right by k bits: the quotient, the last bit shifted out
\* (round) and whether any earlier bit shifted out was set (sticky)
BigShr(x, k, sticky) ==
    IF k = 0 THEN [q |-> x, round |-> 0, sticky |-> sticky]
    ELSE LET a == BigShrTrunc(x, k - 1)
             d == BigDivSmall(a.q, 2)
         IN  [q |-> d.q, round |-> d.r, sticky |-> sticky \/ a.lost]

BigIsOdd(x) == x # << >> /\ x[1] % 2 = 1

(***************************************************************************)
(* Binary floating point.  amount_usd, lp_token_price_usd and the product  *)
(* with 10**decimals are Python floats (IEEE-754 binary64): a value is     *)
(* m * 2^e with m below 2^53, and every operation rounds its exact result  *)
(* to the nearest such value, ties to even.                                *)
(***************************************************************************)
DoubleMantissaBits == 53

\* the exact value n * 2^e (plus a nonzero fraction below one unit of n
\* when sticky) rounded to nearest, ties to even
RoundToDouble(n, e, sticky) ==
    LET len == BigBitLen(n)
    IN  IF len <= DoubleMantissaBits THEN [m |-> n, e |-> e]
        ELSE LET s  == len - DoubleMantissaBits
                 sh == BigShr(n, s, sticky)
                 up == sh.round = 1 /\ (sh.sticky \/ BigIsOdd(sh.q))
             IN  [m |-> IF up THEN BigAdd(sh.q, << 1 >>) ELSE sh.q, e |-> e + s]

\* float(n) of a Python int
FloatFromBig(n) == RoundToDouble(n, 0, FALSE)

\* a / p of two integer-valued floats (0 < p < LimbBase): the quotient is
\* developed to 64 bits beyond the size of p before it is rounded
TrueDiv(a, p) ==
    LET guard == 64 + BigBitLen(BigFromNat(p))
        d     == BigDivSmall(BigShl(BigFromNat(a), guard), p)
    IN  RoundToDouble(d.q, 0 - guard, d.r # 0)

FloatMul(x, y) == RoundToDouble(BigMul(x.m, y.m), x.e + y.e, FALSE)

\* int(x) of a non-negative float: truncation
FloatTrunc(x) ==
    IF x.e >= 0 THEN BigShl(x.m, x.e) ELSE BigShrTrunc(x.m, 0 - x.e).q

\* int((amount_usd / lp_price) * (10**decimals))
LpAmountFromUsd(amount_usd, lp_price, decimals) ==
    FloatTrunc(FloatMul(TrueDiv(amount_usd, lp_price),
                        FloatFromBig(BigPow(10, decimals))))

\* (amount_usd * 10^decimals) \div lp_price in exact integer arithmetic
ExactFloorAmount(amount_usd, lp_price, decimals) ==
    BigDivSmall(BigMulSmall(BigPow(10, decimals), amount_usd), lp_price).q

\* float(n), a Python int below LimbBase^2
FloatFromNat(n) == FloatFromBig(BigFromNat(n))

\* math.ceil(x) of a non-negative float
FloatCeil(x) ==
    IF x.e >= 0 THEN BigShl(x.m, x.e)
    ELSE LET t == BigShrTrunc(x.m, 0 - x.e)
         IN  IF t.lost THEN BigAdd(t.q, << 1 >>) ELSE t.q

\* the value of a Big below LimbBase^2 as a plain number
BigToNat(x) ==
    IF x = << >> THEN 0
    ELSE IF Len(x) = 1 THEN x[1]
    ELSE x[1] + LimbBase * x[2]

\* x - 1 for x > 0
RECURSIVE BigPredLimbs(_)
BigPredLimbs(x) ==
    IF x[1] > 0 THEN << x[1] - 1 >> \o Tail(x)
    ELSE << LimbBase - 1 >> \o BigPredLimbs(Tail(x))

BigPred(x) == BigNorm(BigPredLimbs(x))

(***************************************************************************)
(* Program constants                                                       *)
(***************************************************************************)
DEFAULT_DRY_RUN == TRUE

\* (1 << 256) - 1: seventeen full limbs of 15 bits and one more bit
MAX_UINT256 == [i \in 1..17 |-> LimbBase - 1] \o << 1 >>

SUPPORTED_CHAINS ==
    {"ethereum", "arbitrum", "base", "optimism", "polygon",
     "avalanche", "bsc", "gnosis", "zksync", "scroll"}

DEFAULT_DEPOSIT_AMOUNT_USD == 100

DEFAULT_TOP_N_GAUGES == 3

DEFAULT_LP_TOKEN_DECIMALS == 18

MAX_LP_TOKEN_DECIMALS == 36

DEFAULT_FALLBACK_GAS_LIMIT == 350000

MIN_GAS_LIMIT == 21000

\* DEFAULT_GAS_LIMIT_MULTIPLIER = 1.2 and DEFAULT_GAS_PRICE_MULTIPLIER = 1.1,
\* as the floats nearest to the decimal literals
DEFAULT_GAS_LIMIT_MULTIPLIER == TrueDiv(12, 10)

DEFAULT_GAS_PRICE_MULTIPLIER == TrueDiv(11, 10)

\* DEFAULT_RPC_PROBES: three eth_chainId variants and a health check
DEFAULT_RPC_PROBES ==
    << [method |-> "POST", path |-> ""],
       [method |-> "POST", path |-> "/ext/bc/C/rpc"],
       [method |-> "POST", path |-> "/rpc"],
       [method |-> "GET", path |-> "/health"] >>

\* An optional value (a key the JSON configuration may not carry, a value
\* that may be None) is << >> when absent and << v >> when present
Absent == << >>

Some(v) == << v >>

\* dict.get(key, default)
Get(opt, default) == IF opt = << >> THEN default ELSE opt[1]

(***************************************************************************)
(* State of one invocation of main / run_once                              *)
(***************************************************************************)
VARIABLES
    cfg,              \* the configuration file (a JSON object)
    args,             \* the command line: yes_live, ledger_address
    env,              \* SEREN_API_KEY and the local wallet file
    pc,               \* the stage run_once has reached
    error,            \* the exception that ended the run, "" when none
    inputs,           \* _resolve_inputs(config), NoInputs before it ran
    dry_run,          \* bool(config.get("dry_run", DEFAULT_DRY_RUN))
    signer,           \* resolve_signer(...), NoSigner before it ran
    rpc_capability,   \* check_rpc_capability(...), NoCapability before it ran
    trade_plan,       \* choose_trade_plan(...), NoPlan before it ran
    position_sync,    \* the position_sync status of the result
    preflight_calls,  \* strict_estimation of every preflight_liquidity call
    tx_calls,         \* the calls of the transaction builder
    strategy_details, \* the details the builder reports
    gas_price_wei,    \* _resolve_gas_price_wei(...), 0 before it ran
    preflight,        \* _estimate_and_prepare_transactions(...), NoPreflight before
    signed,           \* unsigned transactions handed to _sign_transaction
    sent,             \* payloads of the eth_sendRawTransaction requests
    result,           \* the object run_once returned, NoResult when none
    exit_code,        \* what main returned, -1 while it runs
    stdout,           \* the objects main printed
    rpc_log,          \* every request issued through the gateway client
    error_detail,     \* what the message of the exception or warning lists
    catalog,          \* the publishers list_publishers returned
    probe_responses,  \* the payloads the capability probes were answered with
    listing,          \* the data object of the /getGauges response
    gauges_response,  \* fetch_top_gauges(...), NoGauges before it ran
    base_gas_price,   \* the eth_gasPrice result, 0 when none was read
    call,             \* a helper applied on its own, and its argument
    returned,         \* what that helper returned
    runs,             \* two invocations side by side: what each holds
    pending           \* the node's pending transaction count per account

vars ==
    << cfg, args, env, pc, error, inputs, dry_run, signer, rpc_capability,
       trade_plan, position_sync, preflight_calls, tx_calls, strategy_details,
       gas_price_wei, preflight, signed, sent, result, exit_code, stdout,
       rpc_log, error_detail, catalog, probe_responses, listing,
       gauges_response, base_gas_price, call, returned, runs, pending >>

NoInputs ==
    [chain |-> "", wallet_mode |-> "", live_mode |-> FALSE,
     deposit_amount_usd |-> 0, top_n_gauges |-> 0]

NoSigner == [mode |-> "", address |-> ""]

NoErrorDetail == [probes |-> << >>, errors |-> << >>, available |-> << >>]

NoCapability ==
    [status |-> "", publisher |-> << >>, publisher_source |-> "",
     rpc_target |-> Absent, error |-> NoErrorDetail]

NoPlan ==
    [amount_usd |-> 0, gauge_address |-> "", lp_token_address |-> "",
     lp_token_price_usd |-> Absent]

NoPreflight ==
    [strict |-> FALSE, chain_id |-> 0, nonce_start |-> 0,
     estimation_errors |-> << >>, transactions |-> << >>]

NoGauges == [ok |-> FALSE, error |-> "", gauges |-> << >>, total_candidates |-> 0]

NoCall == [fn |-> "", arg |-> << >>]

NoResult == [status |-> "", mode |-> "", keys |-> {}, submitted_tx_hashes |-> << >>]

\* strings matching HEX_ADDRESS_RE (0x and 40 hex digits), by name
HexAddresses ==
    {"0xgauge", "0xgauge2", "0xgauge3", "0xlptoken", "0xcustom", "0xwallet",
     "0xledger"}

\* strings matching HEX_BYTES_RE (0x and any number of hex digits)
HexByteStrings == {"0x", "0xa9059cbb", "0xsigned0", "0xsigned1", "0xsigned2"}

\* _normalize_address: [ok, value]
_normalize_address(value) == [ok |-> value \in HexAddresses, value |-> value]

\* lines 752 and 755, str(value).strip() and text.lower(): the spellings
\* explored that differ from their stripped lower-case form
StripLower(text) ==
    CASE text = "0xSIGNED0" -> "0xsigned0"
      [] text = " 0xsigned1 " -> "0xsigned1"
      [] OTHER -> text

\* _normalize_hex_bytes: [ok, value]; HEX_BYTES_RE is matched after strip()
\* and accepts both cases, the value returned is in lower case
_normalize_hex_bytes(value) == [ok |-> StripLower(value) \in HexByteStrings, value |-> StripLower(value)]

\* _resolve_inputs: the ConfigError it raises, "" when the inputs are valid
ResolveInputsCheck(c) ==
    IF c.chain \notin SUPPORTED_CHAINS THEN "ConfigError"
    ELSE IF c.wallet_mode \notin {"local", "ledger"} THEN "ConfigError"
    ELSE IF Get(c.deposit_amount_usd, DEFAULT_DEPOSIT_AMOUNT_USD) <= 0
         THEN "ConfigError"
    ELSE IF Get(c.top_n_gauges, DEFAULT_TOP_N_GAUGES) < 1 THEN "ConfigError"
    ELSE ""

_resolve_inputs(c) ==
    [chain              |-> c.chain,
     wallet_mode        |-> c.wallet_mode,
     live_mode          |-> Get(c.live_mode, FALSE),
     deposit_amount_usd |-> Get(c.deposit_amount_usd, DEFAULT_DEPOSIT_AMOUNT_USD),
     top_n_gauges       |-> Get(c.top_n_gauges, DEFAULT_TOP_N_GAUGES)]

\* resolve_signer: [ok, signer]
resolve_signer(wallet_mode, wallet_file, ledger_address) ==
    IF wallet_mode = "local"
    THEN IF wallet_file = "missing" \/ wallet_file = "incomplete"
         THEN [ok |-> FALSE, signer |-> NoSigner]
         ELSE [ok |-> _normalize_address(wallet_file).ok,
               signer |-> [mode |-> "local", address |-> wallet_file]]
    ELSE IF ledger_address = ""
         THEN [ok |-> FALSE, signer |-> NoSigner]
         ELSE [ok |-> _normalize_address(ledger_address).ok,
               signer |-> [mode |-> "ledger", address |-> ledger_address]]

\* load_local_wallet, line 313: json.loads of a wallet file that holds no
\* JSON raises json.JSONDecodeError, which no handler of the program names
LoadWalletEscapes(wallet_mode, wallet_file) == wallet_mode = "local" /\ wallet_file = "not-json"

\* main, line 1607: the exceptions its handler catches
Handled == {"ConfigError", "PublisherError"}

\* _resolve_evm_execution: is the strategy one of the two supported
ResolveEvmExecutionOk(c) == c.strategy \in {"gauge_stake_lp", "custom_tx"}

\* a run that takes an omitted dry_run for false
ResolveDryRunDefaultFalse(c) == Get(c.dry_run, FALSE)

\* bool(config.get("dry_run", DEFAULT_DRY_RUN))
ResolveDryRun(c) == Get(c.dry_run, DEFAULT_DRY_RUN)

\* a failure that is recorded while the run stays in its stage
FailAndStay(kind, detail) == pc' = pc /\ error' = kind /\ error_detail' = detail

FailWith(kind, detail) ==
    /\ pc' = "error"
    /\ error' = kind
    /\ error_detail' = detail

Fail(kind) == FailWith(kind, NoErrorDetail)

\* one request of client.call: what is asked, the HTTP method and path it is
\* sent with, and whether it was answered without an error
Request(rpc, method, path, ok) ==
    [rpc |-> rpc, method |-> method, path |-> path, ok |-> ok]

\* run_once, lines 1484-1489: the rpc_target every _rpc_call is made with
RpcTarget(capability) ==
    Get(capability.rpc_target, [method |-> "POST", path |-> ""])

\* the _rpc_call requests of the given names, all answered when failed_at
\* is 0, otherwise all but the one at failed_at
RpcCalls(names, failed_at) ==
    [i \in DOMAIN names |->
        Request(names[i], RpcTarget(rpc_capability).method,
                RpcTarget(rpc_capability).path, i # failed_at)]

\* run_once up to _resolve_evm_execution: INIT -> RESOLVED_INPUTS
ResolveInputs ==
    /\ pc = "init"
    /\ LET ledger == IF args.ledger_address # "" THEN args.ledger_address
                     ELSE cfg.wallet_ledger_address
           sg     == resolve_signer(cfg.wallet_mode, env.wallet_file, ledger)
       IN  IF env.api_key = "" THEN
               /\ Fail("ConfigError")
               /\ UNCHANGED << inputs, dry_run, signer >>
           ELSE IF ResolveInputsCheck(cfg) # "" THEN
               /\ Fail("ConfigError")
               /\ UNCHANGED << inputs, dry_run, signer >>
           ELSE IF LoadWalletEscapes(cfg.wallet_mode, env.wallet_file) THEN
               /\ Fail("JSONDecodeError")
               /\ inputs' = _resolve_inputs(cfg)
               /\ dry_run' = ResolveDryRun(cfg)
               /\ UNCHANGED signer
           ELSE IF ~sg.ok THEN
               /\ Fail("ConfigError")
               /\ inputs' = _resolve_inputs(cfg)
               /\ dry_run' = ResolveDryRun(cfg)
               /\ UNCHANGED signer
           ELSE IF ~ResolveEvmExecutionOk(cfg) THEN
               /\ Fail("ConfigError")
               /\ inputs' = _resolve_inputs(cfg)
               /\ dry_run' = ResolveDryRun(cfg)
               /\ signer' = sg.signer
           ELSE
               /\ pc' = "resolved_inputs"
               /\ inputs' = _resolve_inputs(cfg)
               /\ dry_run' = ResolveDryRun(cfg)
               /\ signer' = sg.signer
               /\ UNCHANGED << error, error_detail >>
    /\ UNCHANGED << catalog, probe_responses, listing, gauges_response, base_gas_price, call, returned, runs, pending >>
    /\ UNCHANGED << cfg, args, env, rpc_capability, trade_plan, position_sync,
                    preflight_calls, tx_calls, strategy_details, gas_price_wei,
                    preflight, signed, sent, result, exit_code, stdout, rpc_log >>

(***************************************************************************)
(* RPC discovery                                                           *)
(***************************************************************************)
\* CHAIN_DISCOVERY_TERMS
CHAIN_DISCOVERY_TERMS ==
    [ethereum  |-> {"ethereum"},
     arbitrum  |-> {"arbitrum"},
     base      |-> {"base"},
     optimism  |-> {"optimism"},
     polygon   |-> {"polygon", "matic"},
     avalanche |-> {"avalanche", "avax"},
     bsc       |-> {"bsc", "binance", "bnb"},
     gnosis    |-> {"gnosis", "xdai"},
     zksync    |-> {"zksync"},
     scroll    |-> {"scroll"}]

\* sorted(discovered.items()): the chains in the order of their names
SortedChains ==
    << "arbitrum", "avalanche", "base", "bsc", "ethereum", "gnosis",
       "optimism", "polygon", "scroll", "zksync" >>

\* A text is kept as the sequence of its words and of the separators between
\* them: a slug seren-ethereum is << "seren", "-", "ethereum" >>
Separators == {" ", "-"}

\* the words of the catalogs explored, in the order str compares them
WordOrder ==
    << "-", "alchemy", "ethereum", "json", "mainnet", "matic", "node",
       "polygon", "rpc", "seren" >>

\* str.lower on a word
Lower(word) ==
    IF word = "RPC" THEN "rpc"
    ELSE IF word = "Seren" THEN "seren"
    ELSE IF word = "Ethereum" THEN "ethereum"
    ELSE word

\* str.lower on a text
LowerText(text) == [i \in DOMAIN text |-> Lower(text[i])]

\* _tokenize: the lower-cased words between separators
_tokenize(text) ==
    {Lower(text[i]) : i \in {j \in DOMAIN text : text[j] \notin Separators}}

\* "a<sep>b" in text.lower()
HasPhrase(text, a, sep, b) ==
    \E i \in DOMAIN text :
        /\ i + 2 <= Len(text)
        /\ Lower(text[i]) = a
        /\ text[i + 1] = sep
        /\ Lower(text[i + 2]) = b

\* the place of a word in the order of str
WordRank(word) == CHOOSE i \in DOMAIN WordOrder : WordOrder[i] = word

\* a < b on str: at the first place where they differ a ends or has the
\* smaller word ("-" sorts before every letter and digit)
StrLess(a, b) ==
    \E k \in 1..(Len(b)) :
        /\ \A j \in 1..(k - 1) : j <= Len(a) /\ a[j] = b[j]
        /\ \/ k = Len(a) + 1
           \/ k <= Len(a) /\ WordRank(a[k]) < WordRank(b[k])

\* _is_rpc_like_publisher
_is_rpc_like_publisher(publisher) ==
    \/ "rpc" \in _tokenize(publisher.categories)
    \/ "rpc" \in _tokenize(publisher.slug)
    \/ "rpc" \in _tokenize(publisher.name)
    \/ HasPhrase(publisher.description, "json", "-", "rpc")
    \/ HasPhrase(publisher.description, "json", " ", "rpc")

\* lines 397-423: is the publisher a candidate for the chain terms
IsCandidate(publisher, terms) ==
    /\ publisher.is_active
    /\ _is_rpc_like_publisher(publisher)
    /\ publisher.slug # << >>
    /\ terms \cap (_tokenize(publisher.slug) \cup _tokenize(publisher.name)
                   \cup _tokenize(publisher.categories)
                   \cup _tokenize(publisher.description)) # {}

\* lines 425-435: the score of a candidate
Score(publisher, terms) ==
    (IF Len(publisher.slug) >= 2 /\ Lower(publisher.slug[1]) = "seren"
        /\ publisher.slug[2] = "-" THEN 20 ELSE 0)
    + (IF terms \cap _tokenize(publisher.slug) # {} THEN 12 ELSE 0)
    + (IF terms \cap _tokenize(publisher.categories) # {} THEN 8 ELSE 0)
    + (IF terms \cap _tokenize(publisher.name) # {} THEN 6 ELSE 0)
    + (IF HasPhrase(publisher.description, "json", "-", "rpc") THEN 4 ELSE 0)

\* a comparison that keeps the first of two candidates of equal score
ReplacesBestByScoreOnly(score, slug, best_score, best_slug) == score > best_score

\* line 436: does the candidate replace the best one found so far
ReplacesBest(score, slug, best_score, best_slug) ==
    score > best_score \/ (score = best_score /\ StrLess(slug, best_slug))

\* lines 394-438: the loop over the publishers from index i on
RECURSIVE BestSlug(_, _, _, _, _)
BestSlug(publishers, i, terms, best_score, best_slug) ==
    IF i > Len(publishers) THEN best_slug
    ELSE IF IsCandidate(publishers[i], terms)
            /\ ReplacesBest(Score(publishers[i], terms),
                            LowerText(publishers[i].slug), best_score, best_slug)
         THEN BestSlug(publishers, i + 1, terms, Score(publishers[i], terms),
                       LowerText(publishers[i].slug))
         ELSE BestSlug(publishers, i + 1, terms, best_score, best_slug)

\* _discovered_rpc_publishers over the publishers list_publishers returned:
\* chain -> slug, << >> for a chain without candidate
_discovered_rpc_publishers(publishers) ==
    [chain \in DOMAIN CHAIN_DISCOVERY_TERMS |->
        BestSlug(publishers, 1, CHAIN_DISCOVERY_TERMS[chain], 0 - 1, << >>)]

\* lines 462-466: the chain:slug mappings of the message, "none" without any
RECURSIVE AvailableMappings(_, _)
AvailableMappings(discovered, i) ==
    IF i > Len(SortedChains) THEN << >>
    ELSE (IF discovered[SortedChains[i]] # << >>
          THEN << [chain |-> SortedChains[i], slug |-> discovered[SortedChains[i]]] >>
          ELSE << >>)
         \o AvailableMappings(discovered, i + 1)

NoMappings == << [chain |-> "none", slug |-> << >>] >>

Available(discovered) ==
    IF AvailableMappings(discovered, 1) = << >> THEN NoMappings
    ELSE AvailableMappings(discovered, 1)

\* a resolution that reads the catalog before the override map
CatalogFirst(c) == TRUE

\* does _rpc_publisher_for_chain reach _discovered_rpc_publishers (line 457)
NeedsCatalog(c) == c.rpc_publishers = Absent

\* _rpc_publisher_for_chain: [ok, publisher, publisher_source, available]
_rpc_publisher_for_chain(chain, c, publishers) ==
    IF c.rpc_publishers # Absent
    THEN [ok |-> TRUE, publisher |-> c.rpc_publishers[1],
          publisher_source |-> "config.rpc_publishers", available |-> << >>]
    ELSE IF _discovered_rpc_publishers(publishers)[chain] # << >>
    THEN [ok |-> TRUE, publisher |-> _discovered_rpc_publishers(publishers)[chain],
          publisher_source |-> "catalog:/publishers", available |-> << >>]
    ELSE [ok |-> FALSE, publisher |-> << >>, publisher_source |-> "",
          available |-> Available(_discovered_rpc_publishers(publishers))]

\* publishers of the catalog
Publisher(slug, name, categories, description, is_active) ==
    [slug |-> slug, name |-> name, categories |-> categories,
     description |-> description, is_active |-> is_active]

SerenEthereum ==
    Publisher(<< "Seren", "-", "ethereum" >>, << "Ethereum", " ", "RPC" >>,
              << "rpc" >>, << "json", "-", "rpc", " ", "node" >>, TRUE)

AlchemyEthereum ==
    Publisher(<< "alchemy", "-", "ethereum" >>, << "alchemy" >>, << "rpc" >>,
              << >>, TRUE)

PolygonNode ==
    Publisher(<< "polygon", "-", "node" >>, << "matic", " ", "rpc" >>, << >>,
              << >>, TRUE)

\* the catalogs list_publishers may return in a run
Catalogs ==
    {<< >>, << PolygonNode >>, << AlchemyEthereum, PolygonNode, SerenEthereum >>}

\* list_publishers: [ok, publishers], not ok when the request fails or the
\* response has no data list
CatalogOutcomes ==
    {[ok |-> FALSE, publishers |-> << >>]}
    \cup {[ok |-> TRUE, publishers |-> publishers] : publishers \in Catalogs}

(***************************************************************************)
(* Capability probe                                                        *)
(***************************************************************************)
\* A JSON value of a response: kind is "object" for a JSON object; status is
\* Absent or the value under "status" with its Python type; body, error,
\* result and data are Absent when the key is missing
JsonObject(status, body, rpc_error, rpc_result) ==
    [kind |-> "object", status |-> status, body |-> body, error |-> rpc_error,
     result |-> rpc_result, data |-> Absent]

NotAnObject ==
    [kind |-> "other", status |-> Absent, body |-> Absent, error |-> Absent,
     result |-> Absent, data |-> Absent]

\* {"success": true, "data": {...}}
WithData(data) ==
    [JsonObject(Absent, Absent, Absent, Absent) EXCEPT !.data = Some(data)]

IntStatus(n) == Some([type |-> "int", value |-> n])

StrStatus == Some([type |-> "str", value |-> 0])

\* {"jsonrpc": "2.0", "id": 1, "result": ...}
RpcResult == JsonObject(Absent, Absent, Absent, Some("0x1"))

\* {"jsonrpc": "2.0", "id": 1, "error": {...}}
RpcError == JsonObject(Absent, Absent, Some("error"), Absent)

\* the gateway envelope {"status": n, "body": body}
Envelope(n, body) == JsonObject(IntStatus(n), Some(body), Absent, Absent)

\* {"status": "ok"}, the answer of a health endpoint
Health == JsonObject(StrStatus, Absent, Absent, Absent)

\* isinstance(status, int), which holds of a bool as well
IsInt(status) == status.type \in {"int", "bool"}

\* an envelope whose body is passed on whatever the status
_unwrap_any_status(payload) ==
    IF payload.kind # "object" THEN [raised |-> TRUE, value |-> payload]
    ELSE IF payload.status # Absent /\ IsInt(payload.status[1])
            /\ payload.body # Absent
         THEN [raised |-> FALSE, value |-> payload.body[1]]
         ELSE [raised |-> FALSE, value |-> payload]

\* _unwrap_gateway_response: [raised, value]
_unwrap_gateway_response(payload) ==
    IF payload.kind # "object" THEN [raised |-> TRUE, value |-> payload]
    ELSE IF payload.status # Absent /\ IsInt(payload.status[1])
            /\ payload.body # Absent
         THEN IF payload.status[1].value < 200 \/ payload.status[1].value >= 300
              THEN [raised |-> TRUE, value |-> payload]
              ELSE [raised |-> FALSE, value |-> payload.body[1]]
         ELSE [raised |-> FALSE, value |-> payload]

\* lines 584-596 and 659-668: the checks on an unwrapped JSON-RPC response
JsonRpcResultOk(unwrapped) ==
    /\ unwrapped.kind = "object"
    /\ unwrapped.error \in {Absent, Some("null"), Some("empty")}
    /\ unwrapped.result # Absent

\* _rpc_call on the payload client.call returned: [raised, result]
_rpc_call(payload) ==
    IF _unwrap_gateway_response(payload).raised
       \/ ~JsonRpcResultOk(_unwrap_gateway_response(payload).value)
    THEN [raised |-> TRUE, result |-> Absent]
    ELSE [raised |-> FALSE,
          result |-> _unwrap_gateway_response(payload).value.result]

\* _rpc_probe_config: the configured probes, the default ones when none are
ProbesOf(c) == Get(c.rpc_probes, DEFAULT_RPC_PROBES)

\* what client.call does for a probe: it raises PublisherError or returns
\* the payload
Raised == [raised |-> TRUE, payload |-> NotAnObject]

Answered(payload) == [raised |-> FALSE, payload |-> payload]

ProbeResponses ==
    {Raised, Answered(Envelope(200, RpcResult)),
     Answered(Envelope(502, RpcResult))}

\* a probe that accepts the first well-formed result of any method
ProbeOutcomeAnyMethod(probe, response) ==
    IF response.raised \/ _unwrap_gateway_response(response.payload).raised
    THEN "error"
    ELSE IF JsonRpcResultOk(_unwrap_gateway_response(response.payload).value)
         THEN "ok" ELSE "error"

\* lines 570-608, one probe: "ok" when check_rpc_capability returns on it,
\* "error" when a PublisherError is appended to errors, "ignored" when the
\* loop goes on to the next probe without either
ProbeOutcome(probe, response) ==
    IF response.raised \/ _unwrap_gateway_response(response.payload).raised
    THEN "error"
    ELSE IF probe.method # "POST" THEN "ignored"
    ELSE IF JsonRpcResultOk(_unwrap_gateway_response(response.payload).value)
         THEN "ok" ELSE "error"

\* the responses of a loop over the probes: one for every probe up to the
\* first one the loop returns on, one for every probe when there is none
ProbeRuns(probes) ==
    UNION {{responses \in [1..n -> ProbeResponses] :
               /\ \A i \in 1..(n - 1) :
                      ProbeOutcome(probes[i], responses[i]) # "ok"
               /\ \/ n = Len(probes)
                  \/ ProbeOutcome(probes[n], responses[n]) = "ok"} :
           n \in 1..Len(probes)}

\* the index of the probe the loop returned on, 0 when it ran to its end
ReturnedOn(probes, responses) ==
    IF ProbeOutcome(probes[Len(responses)], responses[Len(responses)]) = "ok"
    THEN Len(responses) ELSE 0

\* an error entry for every probe attempted
ProbeErrorsForAll(probes, responses, i) == SubSeq(probes, i, Len(responses))

\* line 608: the probes that have an entry in errors, in probe order
RECURSIVE ProbeErrors(_, _, _)
ProbeErrors(probes, responses, i) ==
    IF i > Len(responses) THEN << >>
    ELSE (IF ProbeOutcome(probes[i], responses[i]) = "error"
          THEN << probes[i] >> ELSE << >>)
         \o ProbeErrors(probes, responses, i + 1)

\* lines 610-617: what the message lists, the probes attempted and the errors
ProbeMessage(probes, responses) ==
    [probes |-> probes, errors |-> ProbeErrors(probes, responses, 1),
     available |-> << >>]

\* the requests of the probes answered by responses
ProbeRequests(probes, responses) ==
    [i \in DOMAIN responses |->
        Request("probe", probes[i].method, probes[i].path,
                ProbeOutcome(probes[i], responses[i]) # "error")]

\* the catalog request of list_publishers, when the catalog is consulted
DiscoveryRequests(c, listed) ==
    IF NeedsCatalog(c)
    THEN << Request("publishers", "GET", "/publishers", listed.ok) >>
    ELSE << >>

\* check_rpc_capability: the publisher is resolved, then the probes are
\* tried in order
CheckRpcCapability ==
    /\ pc = "resolved_inputs"
    /\ \E listed \in (IF NeedsCatalog(cfg) THEN CatalogOutcomes
                      ELSE {[ok |-> TRUE, publishers |-> << >>]}) :
       \E found \in {_rpc_publisher_for_chain(inputs.chain, cfg, listed.publishers)} :
         /\ catalog' = listed.publishers
         /\ IF ~listed.ok THEN
                /\ rpc_log' = rpc_log \o DiscoveryRequests(cfg, listed)
                /\ Fail("PublisherError")
                /\ UNCHANGED << rpc_capability, probe_responses >>
            ELSE IF ~found.ok THEN
                /\ rpc_log' = rpc_log \o DiscoveryRequests(cfg, listed)
                /\ FailWith("ConfigError",
                            [NoErrorDetail EXCEPT !.available = found.available])
                /\ UNCHANGED << rpc_capability, probe_responses >>
            ELSE \E responses \in ProbeRuns(ProbesOf(cfg)) :
                /\ probe_responses' = responses
                /\ rpc_log' = rpc_log \o DiscoveryRequests(cfg, listed)
                                  \o ProbeRequests(ProbesOf(cfg), responses)
                /\ IF ReturnedOn(ProbesOf(cfg), responses) > 0 THEN
                       /\ rpc_capability' =
                              [status           |-> "ok",
                               publisher        |-> found.publisher,
                               publisher_source |-> found.publisher_source,
                               rpc_target       |->
                                   Some(ProbesOf(cfg)[ReturnedOn(ProbesOf(cfg),
                                                                 responses)]),
                               error            |-> NoErrorDetail]
                       /\ pc' = "rpc_ready"
                       /\ UNCHANGED << error, error_detail >>
                   ELSE IF cfg.rpc_required THEN
                       /\ FailWith("ConfigError",
                                   ProbeMessage(ProbesOf(cfg), responses))
                       /\ UNCHANGED rpc_capability
                   ELSE
                       /\ rpc_capability' =
                              [status           |-> "warning",
                               publisher        |-> found.publisher,
                               publisher_source |-> found.publisher_source,
                               rpc_target       |-> Absent,
                               error            |->
                                   ProbeMessage(ProbesOf(cfg), responses)]
                       /\ pc' = "rpc_ready"
                       /\ UNCHANGED << error, error_detail >>
    /\ UNCHANGED << listing, gauges_response, base_gas_price, call, returned, runs, pending >>
    /\ UNCHANGED << cfg, args, env, inputs, dry_run, signer, trade_plan,
                    position_sync, preflight_calls, tx_calls, strategy_details,
                    gas_price_wei, preflight, signed, sent, result, exit_code,
                    stdout >>

(***************************************************************************)
(* Opportunity fetcher                                                     *)
(***************************************************************************)
\* CURVE_CHAIN_ALIASES
CURVE_CHAIN_ALIASES ==
    [ethereum  |-> {"ethereum"},
     arbitrum  |-> {"arbitrum"},
     base      |-> {"base"},
     optimism  |-> {"optimism"},
     polygon   |-> {"polygon"},
     avalanche |-> {"avalanche"},
     bsc       |-> {"bsc", "binance"},
     gnosis    |-> {"gnosis", "xdai"},
     zksync    |-> {"zksync"},
     scroll    |-> {"scroll"}]

\* str(...).lower().strip() on a blockchainId
LowerStrip(text) ==
    IF text \in {"Ethereum", " ethereum "} THEN "ethereum" ELSE text

\* _curve_chain_matches
_curve_chain_matches(requested_chain, source_chain) ==
    LowerStrip(source_chain) \in
        (IF requested_chain \in DOMAIN CURVE_CHAIN_ALIASES
         THEN CURVE_CHAIN_ALIASES[requested_chain] ELSE {requested_chain})

\* A float of the listing is a whole number v or, with nan, not a number
Float(v) == [nan |-> FALSE, v |-> v]

NaN == [nan |-> TRUE, v |-> 0]

\* a < b on float: false whenever one of the two is not a number
FloatLess(a, b) == ~a.nan /\ ~b.nan /\ a.v < b.v

\* JSON values a number is read from: a number, a string that float()
\* parses (to 5 or to nan), a string it does not parse, a boolean, null
JsonNumber(v) == [type |-> "number", value |-> Float(v)]

JsonNaN == [type |-> "number", value |-> NaN]

JsonText(float) == [type |-> "str", value |-> float]

JsonWord == [type |-> "word", value |-> Float(0)]

JsonBool == [type |-> "bool", value |-> Float(1)]

JsonNull == [type |-> "null", value |-> Float(0)]

\* _to_float: Absent for None
_to_float(raw) ==
    IF raw.type \in {"number", "str"} THEN Some(raw.value) ELSE Absent

\* a gauge field that holds one JSON value or a list of them
Scalar(raw) == [list |-> FALSE, items |-> << raw >>]

List(items) == [list |-> TRUE, items |-> items]

\* lines 766-776: the parsed candidates of one field, in item order
RECURSIVE Candidates(_, _)
Candidates(items, i) ==
    IF i > Len(items) THEN << >>
    ELSE _to_float(items[i]) \o Candidates(items, i + 1)

\* max(candidates) of Python: the first value no later one is greater than
RECURSIVE PyMax(_, _, _)
PyMax(candidates, i, best) ==
    IF i > Len(candidates) THEN best
    ELSE PyMax(candidates, i + 1,
               IF FloatLess(best, candidates[i]) THEN candidates[i] ELSE best)

\* _extract_reward_apy
_extract_reward_apy(gauge) ==
    LET candidates == Candidates(gauge.gaugeFutureCrvApy.items, 1)
                      \o Candidates(gauge.gaugeCrvApy.items, 1)
    IN  IF candidates = << >> THEN Float(0)
        ELSE PyMax(candidates, 2, candidates[1])

\* lines 808-816: is the listed value kept as a candidate gauge
GaugeMatches(gauge_value, chain) ==
    /\ gauge_value.is_object
    /\ _curve_chain_matches(chain, gauge_value.blockchainId)
    /\ gauge_value.gauge \in HexAddresses

\* lines 823-833: the gauge appended for a listed value
GaugeOf(gauge_name, gauge_value) ==
    [name               |-> gauge_name,
     address            |-> gauge_value.gauge,
     lp_token_address   |-> IF gauge_value.swap_token \in HexAddresses
                            THEN gauge_value.swap_token ELSE "",
     lp_token_price_usd |-> _to_float(gauge_value.lpTokenPrice),
     reward_apy         |-> _extract_reward_apy(gauge_value),
     source_chain       |-> LowerStrip(gauge_value.blockchainId)]

\* lines 807-833: the loop over data.items() from entry i on
RECURSIVE MatchingGauges(_, _, _)
MatchingGauges(data, chain, i) ==
    IF i > Len(data) THEN << >>
    ELSE (IF GaugeMatches(data[i].value, chain)
          THEN << GaugeOf(data[i].name, data[i].value) >> ELSE << >>)
         \o MatchingGauges(data, chain, i + 1)

\* list.reverse
Reverse(items) == [i \in 1..Len(items) |-> items[Len(items) + 1 - i]]

\* list.sort, count_run: the length of the run the list starts with, i being
\* the first index not yet compared
RECURSIVE RunLength(_, _, _)
RunLength(items, i, descending) ==
    IF i > Len(items) THEN i - 1
    ELSE IF FloatLess(items[i].reward_apy, items[i - 1].reward_apy) = descending
         THEN RunLength(items, i + 1, descending)
         ELSE i - 1

\* list.sort, binarysort: where the pivot goes among items[left..right-1]
RECURSIVE Bisect(_, _, _, _)
Bisect(items, pivot, left, right) ==
    IF left >= right THEN left
    ELSE IF FloatLess(pivot.reward_apy,
                      items[left + ((right - left) \div 2)].reward_apy)
         THEN Bisect(items, pivot, left, left + ((right - left) \div 2))
         ELSE Bisect(items, pivot, left + ((right - left) \div 2) + 1, right)

\* the list with the item at index start moved to index pos <= start
MoveTo(items, start, pos) ==
    [i \in 1..Len(items) |->
        IF i < pos \/ i > start THEN items[i]
        ELSE IF i = pos THEN items[start]
        ELSE items[i - 1]]

\* list.sort, binarysort: items[1..start-1] is sorted, the rest is inserted
RECURSIVE BinarySort(_, _)
BinarySort(items, start) ==
    IF start > Len(items) THEN items
    ELSE BinarySort(MoveTo(items, start,
                           Bisect(items, items[start], 1, start)),
                    start + 1)

\* list.sort() on a list shorter than a minimal run: the initial run is
\* put in ascending order, the other items are inserted into it
SortAscending(items) ==
    IF Len(items) < 2 THEN items
    ELSE LET descending == FloatLess(items[2].reward_apy, items[1].reward_apy)
             n          == RunLength(items, 3, descending)
             run        == IF descending
                           THEN Reverse(SubSeq(items, 1, n))
                                \o SubSeq(items, n + 1, Len(items))
                           ELSE items
         IN  BinarySort(run, n + 1)

\* line 835: gauges.sort(key=reward_apy, reverse=True), which reverses the
\* list, sorts it in ascending order and reverses it again
SortByRewardDescending(gauges) == Reverse(SortAscending(Reverse(gauges)))

\* gauges[:limit]
Take(items, limit) ==
    SubSeq(items, 1, IF limit < Len(items) THEN limit ELSE Len(items))

\* fetch_top_gauges on the response of its one request: the exception it
\* raises ("" when none) and what it returns
fetch_top_gauges(response, chain, limit) ==
    IF response.raised \/ _unwrap_gateway_response(response.payload).raised
    THEN [NoGauges EXCEPT !.error = "PublisherError"]
    ELSE IF _unwrap_gateway_response(response.payload).value.kind # "object"
            \/ _unwrap_gateway_response(response.payload).value.data = Absent
    THEN [NoGauges EXCEPT !.error = "PublisherError"]
    ELSE LET data   == _unwrap_gateway_response(response.payload).value.data[1]
             gauges == SortByRewardDescending(MatchingGauges(data, chain, 1))
         IN  IF Take(gauges, limit) = << >>
             THEN [NoGauges EXCEPT !.error = "ConfigError"]
             ELSE [ok |-> TRUE, error |-> "", gauges |-> Take(gauges, limit),
                   total_candidates |-> Len(gauges)]

\* lpTokenPrice values a listed gauge may carry
LpTokenPrices == {JsonNull, JsonNumber(0), JsonNumber(2), JsonNumber(3)}

\* swap_token values a listed gauge may carry ("": none or malformed)
SwapTokens == {"0xlptoken", ""}

\* one entry of the data object of /getGauges
Gauge(name, chain, address, token, price, future_apy, apy) ==
    [name  |-> name,
     value |-> [is_object         |-> TRUE,
                blockchainId      |-> chain,
                gauge             |-> address,
                swap_token        |-> token,
                lpTokenPrice      |-> price,
                gaugeFutureCrvApy |-> future_apy,
                gaugeCrvApy       |-> apy]]

\* the data objects /getGauges answers with in a run: one gauge of the
\* chain, with every price and LP token, or no gauge of the chain
Listings ==
    {<< Gauge("pool", "ethereum", "0xgauge", token, price,
              Scalar(JsonNumber(5)), Scalar(JsonNull)) >> :
        token \in SwapTokens, price \in LpTokenPrices}
    \cup {<< >>,
          << Gauge("pool", "polygon", "0xgauge", "", JsonNull,
                   Scalar(JsonNull), Scalar(JsonNull)) >>}

\* the answers to the /getGauges request
GaugeResponses ==
    {Raised, Answered(Envelope(502, RpcResult)), Answered(RpcResult)}
    \cup {Answered(Envelope(200, WithData(data))) : data \in Listings}

\* choose_trade_plan over the top gauge of fetch_top_gauges
choose_trade_plan(top, amount_usd) ==
    [amount_usd         |-> amount_usd,
     gauge_address      |-> top.address,
     lp_token_address   |-> top.lp_token_address,
     lp_token_price_usd |-> IF top.lp_token_price_usd = Absent THEN Absent
                            ELSE Some(top.lp_token_price_usd[1].v)]

\* fetch_top_gauges and choose_trade_plan: RPC_READY -> PLANNED
FetchAndPlan ==
    /\ pc = "rpc_ready"
    /\ \E response \in GaugeResponses :
       \E fetched \in {fetch_top_gauges(response, inputs.chain,
                                        inputs.top_n_gauges)} :
         /\ rpc_log' = rpc_log
                \o << Request("getGauges", "GET", "/getGauges",
                              fetched.error # "PublisherError") >>
         /\ listing' = IF fetched.error = "PublisherError" THEN << >>
                       ELSE _unwrap_gateway_response(response.payload).value.data[1]
         /\ gauges_response' = fetched
         /\ IF fetched.error # "" THEN
                /\ Fail(fetched.error)
                /\ UNCHANGED trade_plan
            ELSE
                /\ trade_plan' = choose_trade_plan(fetched.gauges[1],
                                                   inputs.deposit_amount_usd)
                /\ pc' = "planned"
                /\ UNCHANGED << error, error_detail >>
    /\ UNCHANGED << catalog, probe_responses, base_gas_price, call, returned, runs, pending >>
    /\ UNCHANGED << cfg, args, env, inputs, dry_run, signer, rpc_capability,
                    position_sync, preflight_calls, tx_calls, strategy_details,
                    gas_price_wei, preflight, signed, sent, result, exit_code,
                    stdout >>

\* the requests of sync_positions: the native balance, the LP balance when
\* the plan has a well-formed LP token, the staked balance of the gauge
SyncRequests(plan) ==
    << "eth_getBalance" >>
    \o (IF plan.lp_token_address \in HexAddresses THEN << "eth_call" >> ELSE << >>)
    \o (IF plan.gauge_address \in HexAddresses THEN << "eth_call" >> ELSE << >>)

\* a run that lets a failed sync pass unless the live run is confirmed
SyncFailureFatalWhenConfirmed(dry, live_mode) == ~dry /\ live_mode /\ args.yes_live

\* lines 1516-1519: a PublisherError of sync_positions is a warning when
\* dry_run or not live_mode, and a ConfigError otherwise
SyncFailureIsFatal(dry, live_mode) == ~(dry \/ ~live_mode)

\* the position sync of run_once; failed_at is the request that fails,
\* 0 when all succeed
SyncPositions ==
    /\ pc = "planned"
    /\ IF ~cfg.position_sync_enabled THEN
           /\ position_sync' = "skipped"
           /\ pc' = "synced"
           /\ UNCHANGED << error, error_detail, rpc_log >>
       ELSE \E failed_at \in 0..Len(SyncRequests(trade_plan)) :
           IF failed_at = 0 THEN
               /\ rpc_log' = rpc_log \o RpcCalls(SyncRequests(trade_plan), 0)
               /\ position_sync' = "ok"
               /\ pc' = "synced"
               /\ UNCHANGED << error, error_detail >>
           ELSE
               /\ rpc_log' = rpc_log
                      \o RpcCalls(SubSeq(SyncRequests(trade_plan), 1, failed_at),
                                  failed_at)
               /\ IF ~SyncFailureIsFatal(dry_run, inputs.live_mode)
                  THEN /\ position_sync' = "warning"
                       /\ pc' = "synced"
                       /\ UNCHANGED << error, error_detail >>
                  ELSE /\ Fail("ConfigError")
                       /\ UNCHANGED position_sync
    /\ UNCHANGED << catalog, probe_responses, listing, gauges_response, base_gas_price, call, returned, runs, pending >>
    /\ UNCHANGED << cfg, args, env, inputs, dry_run, signer, rpc_capability,
                    trade_plan, preflight_calls, tx_calls, strategy_details,
                    gas_price_wei, preflight, signed, sent, result, exit_code,
                    stdout >>

(***************************************************************************)
(* Transaction builder                                                     *)
(***************************************************************************)
\* _encode_function_call: the call data, kept as the signature the selector
\* is taken from and the arguments that are ABI-encoded after it
_encode_function_call(signature, address_arg, uint_arg) ==
    [signature |-> signature, address_arg |-> address_arg,
     uint_arg |-> uint_arg, raw |-> ""]

\* call data given as hex bytes by the operator
RawCallData(hex) ==
    [signature |-> "", address_arg |-> "", uint_arg |-> BigZero, raw |-> hex]

NoBuild == [ok |-> FALSE, gauge |-> "", lp_token |-> "", lp_amount_wei |-> BigZero]

\* _parse_positive_int / _parse_nonnegative_int of a configured integer
ParsePositiveOk(n) == n > 0

ParseNonnegativeOk(n) == n >= 0

\* lines 982-1003: the LP amount to deposit, [ok, lp_amount_wei]
ResolveLpAmount(c, plan) ==
    IF c.lp_amount_wei # Absent
    THEN [ok |-> ParsePositiveOk(c.lp_amount_wei[1]),
          lp_amount_wei |-> IF c.lp_amount_wei[1] > 0
                            THEN BigFromNat(c.lp_amount_wei[1]) ELSE BigZero]
    ELSE LET decimals == Get(c.lp_token_decimals, DEFAULT_LP_TOKEN_DECIMALS)
             lp_price == plan.lp_token_price_usd
         IN  IF decimals < 0 \/ decimals > MAX_LP_TOKEN_DECIMALS
             THEN [ok |-> FALSE, lp_amount_wei |-> BigZero]
             ELSE IF lp_price = Absent \/ lp_price[1] <= 0
             THEN [ok |-> FALSE, lp_amount_wei |-> BigZero]
             ELSE IF plan.amount_usd <= 0
             THEN [ok |-> FALSE, lp_amount_wei |-> BigZero]
             ELSE LET amount == LpAmountFromUsd(plan.amount_usd, lp_price[1], decimals)
                  IN  [ok |-> amount # BigZero, lp_amount_wei |-> amount]

\* lines 971-1006 of _build_gauge_stake_lp_transactions, all that precedes
\* the allowance read: [ok, gauge, lp_token, lp_amount_wei]; not ok is a
\* ConfigError
GaugeStakeInputs(c, plan) ==
    LET configured_gauge == Get(c.stake_gauge_address, "")
        configured_token == Get(c.stake_lp_token_address, "")
        gauge    == IF configured_gauge # "" THEN configured_gauge
                    ELSE plan.gauge_address
        lp_token == IF configured_token # "" THEN configured_token
                    ELSE plan.lp_token_address
        amount   == ResolveLpAmount(c, plan)
    IN  IF ~_normalize_address(gauge).ok \/ ~_normalize_address(lp_token).ok
        THEN NoBuild
        ELSE IF ~amount.ok THEN NoBuild
        ELSE [ok |-> TRUE, gauge |-> gauge, lp_token |-> lp_token,
              lp_amount_wei |-> amount.lp_amount_wei]

\* an allowance test that also approves when the allowance equals the amount
ApproveCallsAtEqual(gauge, lp_token, lp_amount_wei, allowance_wei, approve_first, approve_max) ==
    IF approve_first /\ ~BigLess(lp_amount_wei, allowance_wei)
    THEN << [label     |-> "approve_lp_token",
             to        |-> lp_token,
             value_wei |-> 0,
             data      |-> _encode_function_call(
                              "approve(address,uint256)", gauge,
                              IF approve_max THEN MAX_UINT256 ELSE lp_amount_wei)] >>
    ELSE << >>

\* lines 1016-1030: the approve call, when one is needed
ApproveCalls(gauge, lp_token, lp_amount_wei, allowance_wei, approve_first, approve_max) ==
    IF approve_first /\ BigLess(allowance_wei, lp_amount_wei)
    THEN << [label     |-> "approve_lp_token",
             to        |-> lp_token,
             value_wei |-> 0,
             data      |-> _encode_function_call(
                              "approve(address,uint256)", gauge,
                              IF approve_max THEN MAX_UINT256 ELSE lp_amount_wei)] >>
    ELSE << >>

\* lines 1032-1044: the deposit call
DepositCalls(gauge, lp_amount_wei) ==
    << [label     |-> "deposit_to_gauge",
        to        |-> gauge,
        value_wei |-> 0,
        data      |-> _encode_function_call("deposit(uint256)", "", lp_amount_wei)] >>

\* a builder that appends the approval after the deposit
GaugeStakeCallsDepositFirst(c, b, allowance_wei) ==
    DepositCalls(b.gauge, b.lp_amount_wei)
    \o ApproveCalls(b.gauge, b.lp_token, b.lp_amount_wei, allowance_wei,
                    Get(c.approve_first, TRUE), Get(c.approve_max, TRUE))

\* lines 1005-1044: tx_calls of _build_gauge_stake_lp_transactions
GaugeStakeCalls(c, b, allowance_wei) ==
    ApproveCalls(b.gauge, b.lp_token, b.lp_amount_wei, allowance_wei,
                 Get(c.approve_first, TRUE), Get(c.approve_max, TRUE))
    \o DepositCalls(b.gauge, b.lp_amount_wei)

\* lines 1046-1053: the details reported beside the calls
GaugeStakeDetails(b, allowance_wei) ==
    [strategy          |-> "gauge_stake_lp",
     lp_amount_wei     |-> b.lp_amount_wei,
     allowance_wei     |-> allowance_wei,
     approval_required |-> BigLess(allowance_wei, b.lp_amount_wei)]

NoDetails ==
    [strategy |-> "", lp_amount_wei |-> BigZero, allowance_wei |-> BigZero,
     approval_required |-> FALSE]

\* a custom builder that drops the configured value
_build_custom_tx_without_value(c) ==
    LET to    == Get(c.custom_to, "")
        data  == Get(c.custom_data, "0x")
        label == IF Get(c.custom_label, "custom_transaction") = ""
                 THEN "custom_transaction"
                 ELSE Get(c.custom_label, "custom_transaction")
    IN  IF ~_normalize_address(to).ok \/ ~_normalize_hex_bytes(data).ok
           \/ ~ParseNonnegativeOk(Get(c.custom_value_wei, 0))
        THEN [ok |-> FALSE, calls |-> << >>]
        ELSE [ok |-> TRUE,
              calls |-> << [label |-> label, to |-> to, value_wei |-> 0,
                            data |-> RawCallData(data)] >>]

\* _build_custom_tx_transactions: [ok, calls]; not ok is a ConfigError
_build_custom_tx_transactions(c) ==
    LET to        == Get(c.custom_to, "")
        data      == Get(c.custom_data, "0x")
        value_wei == Get(c.custom_value_wei, 0)
        label     == IF Get(c.custom_label, "custom_transaction") = ""
                     THEN "custom_transaction"
                     ELSE Get(c.custom_label, "custom_transaction")
    IN  IF ~_normalize_address(to).ok \/ ~_normalize_hex_bytes(data).ok
           \/ ~ParseNonnegativeOk(value_wei)
        THEN [ok |-> FALSE, calls |-> << >>]
        ELSE [ok |-> TRUE,
              calls |-> << [label |-> label, to |-> to, value_wei |-> value_wei,
                            data |-> RawCallData(data)] >>]

CustomDetails ==
    [strategy |-> "custom_tx", lp_amount_wei |-> BigZero,
     allowance_wei |-> BigZero, approval_required |-> FALSE]

\* allowance(owner, gauge) as eth_call may report it, around the amount
AllowanceValues(lp_amount_wei) ==
    {BigZero, BigPred(lp_amount_wei), lp_amount_wei}

\* strict estimation decided without the confirmation flag
StrictEstimationUnconfirmed == inputs.live_mode /\ ~dry_run

\* strict_estimation as run_once passes it to preflight_liquidity
StrictEstimation == inputs.live_mode /\ ~dry_run /\ args.yes_live

\* preflight_liquidity, its first step: _build_trade_transactions
BuildTradeTransactions ==
    /\ pc = "synced"
    /\ preflight_calls' = Append(preflight_calls, StrictEstimation)
    /\ IF cfg.strategy = "custom_tx" THEN
           \E built \in {_build_custom_tx_transactions(cfg)} :
               /\ UNCHANGED rpc_log
               /\ IF built.ok
                  THEN /\ tx_calls' = built.calls
                       /\ strategy_details' = CustomDetails
                       /\ pc' = "built"
                       /\ UNCHANGED << error, error_detail >>
                  ELSE /\ Fail("ConfigError")
                       /\ UNCHANGED << tx_calls, strategy_details >>
       ELSE
           \E b \in {GaugeStakeInputs(cfg, trade_plan)} :
               IF ~b.ok THEN
                   /\ Fail("ConfigError")
                   /\ UNCHANGED << tx_calls, strategy_details, rpc_log >>
               ELSE
                   /\ \/ /\ rpc_log' = rpc_log \o RpcCalls(<< "eth_call" >>, 1)
                         /\ Fail("PublisherError")
                         /\ UNCHANGED << tx_calls, strategy_details >>
                      \/ \E allowance_wei \in AllowanceValues(b.lp_amount_wei) :
                           /\ rpc_log' = rpc_log \o RpcCalls(<< "eth_call" >>, 0)
                           /\ tx_calls' = GaugeStakeCalls(cfg, b, allowance_wei)
                           /\ strategy_details' = GaugeStakeDetails(b, allowance_wei)
                           /\ pc' = "built"
                           /\ UNCHANGED << error, error_detail >>
    /\ UNCHANGED << catalog, probe_responses, listing, gauges_response, base_gas_price, call, returned, runs, pending >>
    /\ UNCHANGED << cfg, args, env, inputs, dry_run, signer, rpc_capability,
                    trade_plan, position_sync, gas_price_wei, preflight, signed,
                    sent, result, exit_code, stdout >>

(***************************************************************************)
(* Gas and nonce resolver                                                  *)
(***************************************************************************)
\* a configured multiplier: a decimal num/den read as the nearest float
MultiplierOf(opt, default) ==
    IF opt = Absent THEN default ELSE TrueDiv(opt[1][1], opt[1][2])

BigMax(x, y) == IF BigLess(x, y) THEN y ELSE x

\* line 1134: max(1, int(math.ceil(base_gas_price * multiplier)))
ScaledGasPrice(base, multiplier) ==
    BigMax(<< 1 >>, FloatCeil(FloatMul(FloatFromNat(base), multiplier)))

\* eth_gasPrice results the node may report
BaseGasPrices == {0, 50, 1000}

\* preflight_liquidity, its second step: _resolve_gas_price_wei
ResolveGasPrice ==
    /\ pc = "built"
    /\ IF cfg.gas_price_wei # Absent THEN
           /\ UNCHANGED << rpc_log, base_gas_price >>
           /\ IF ParsePositiveOk(cfg.gas_price_wei[1])
              THEN /\ gas_price_wei' = BigFromNat(cfg.gas_price_wei[1])
                   /\ pc' = "priced"
                   /\ UNCHANGED << error, error_detail >>
              ELSE /\ Fail("ConfigError")
                   /\ UNCHANGED gas_price_wei
       ELSE
           /\ \/ /\ rpc_log' = rpc_log \o RpcCalls(<< "eth_gasPrice" >>, 1)
                 /\ Fail("PublisherError")
                 /\ UNCHANGED << gas_price_wei, base_gas_price >>
              \/ \E base \in BaseGasPrices :
                   /\ rpc_log' = rpc_log \o RpcCalls(<< "eth_gasPrice" >>, 0)
                   /\ base_gas_price' = base
                   /\ IF cfg.gas_price_multiplier # Absent
                         /\ cfg.gas_price_multiplier[1][1] <= 0
                      THEN /\ Fail("ConfigError")
                           /\ UNCHANGED gas_price_wei
                      ELSE /\ gas_price_wei' =
                               ScaledGasPrice(base,
                                   MultiplierOf(cfg.gas_price_multiplier,
                                                DEFAULT_GAS_PRICE_MULTIPLIER))
                        /\ pc' = "priced"
                        /\ UNCHANGED << error, error_detail >>
    /\ UNCHANGED << catalog, probe_responses, listing, gauges_response, call, returned, runs, pending >>
    /\ UNCHANGED << cfg, args, env, inputs, dry_run, signer, rpc_capability,
                    trade_plan, position_sync, preflight_calls, tx_calls,
                    strategy_details, preflight, signed, sent, result,
                    exit_code, stdout >>

\* line 1223: max(21_000, int(math.ceil(estimated_gas * gas_limit_multiplier)))
GasLimit(estimated_gas, gas_limit_multiplier) ==
    LET scaled == BigToNat(FloatCeil(FloatMul(FloatFromNat(estimated_gas),
                                              gas_limit_multiplier)))
    IN  IF scaled < MIN_GAS_LIMIT THEN MIN_GAS_LIMIT ELSE scaled

\* an eth_estimateGas outcome: 0 is a failed request, otherwise the estimate
EstimateOutcomes == {0, 90000}

\* eth_chainId results
ChainIds == {1}

\* the largest pending nonce eth_getTransactionCount reports
MaxBaseNonce == 1

\* lines 1224-1243: one prepared transaction
PreparedTransaction(tx_call, chain_id, nonce, estimate, gas_limit_multiplier, fallback_gas_limit, gas_price) ==
    LET estimated_gas == IF estimate = 0 THEN fallback_gas_limit ELSE estimate
        gas_limit     == GasLimit(estimated_gas, gas_limit_multiplier)
    IN  [label          |-> tx_call.label,
         to             |-> tx_call.to,
         value_wei      |-> tx_call.value_wei,
         estimated_gas  |-> estimated_gas,
         gas_limit      |-> gas_limit,
         estimate_error |-> estimate = 0,
         unsigned_tx    |-> [chainId  |-> chain_id,
                             nonce    |-> nonce,
                             to       |-> tx_call.to,
                             value    |-> tx_call.value_wei,
                             data     |-> tx_call.data,
                             gas      |-> gas_limit,
                             gasPrice |-> gas_price]]

\* a loop that keeps the nonce of a call whose estimate failed for the next
RECURSIVE PrepareLoopReuseNonce(_, _, _, _, _, _, _, _)
PrepareLoopReuseNonce(calls, i, chain_id, next_nonce, estimates, gas_limit_multiplier, fallback_gas_limit, gas_price) ==
    IF i > Len(calls) THEN << >>
    ELSE << PreparedTransaction(calls[i], chain_id, next_nonce, estimates[i],
                                gas_limit_multiplier, fallback_gas_limit,
                                gas_price) >>
         \o PrepareLoopReuseNonce(calls, i + 1, chain_id,
                IF estimates[i] = 0 THEN next_nonce ELSE next_nonce + 1,
                estimates, gas_limit_multiplier, fallback_gas_limit, gas_price)

\* lines 1190-1244: the loop over tx_calls from call i on, next_nonce being
\* the nonce of call i and estimates[i] the outcome of its eth_estimateGas
\* request; next_nonce is incremented after every call, failed or not
RECURSIVE PrepareLoop(_, _, _, _, _, _, _, _)
PrepareLoop(calls, i, chain_id, next_nonce, estimates, gas_limit_multiplier, fallback_gas_limit, gas_price) ==
    IF i > Len(calls) THEN << >>
    ELSE << PreparedTransaction(calls[i], chain_id, next_nonce, estimates[i],
                                gas_limit_multiplier, fallback_gas_limit,
                                gas_price) >>
         \o PrepareLoop(calls, i + 1, chain_id, next_nonce + 1, estimates,
                        gas_limit_multiplier, fallback_gas_limit, gas_price)

\* the labels of the calls whose estimate failed, in call order
RECURSIVE EstimationErrors(_, _, _)
EstimationErrors(calls, estimates, i) ==
    IF i > Len(calls) THEN << >>
    ELSE (IF estimates[i] = 0 THEN << calls[i].label >> ELSE << >>)
         \o EstimationErrors(calls, estimates, i + 1)

\* the first call whose estimate failed, 0 when none did
FirstFailed(estimates) ==
    IF \E i \in DOMAIN estimates : estimates[i] = 0
    THEN CHOOSE i \in DOMAIN estimates :
             /\ estimates[i] = 0
             /\ \A j \in DOMAIN estimates : estimates[j] = 0 => i <= j
    ELSE 0

\* a preparation that always falls back on a failed estimate
EstimateNeverFatal(strict_estimation, estimates) == FALSE

\* does a failed estimate end the preparation (line 1215)
EstimateIsFatal(strict_estimation, estimates) ==
    strict_estimation /\ FirstFailed(estimates) > 0

\* a preparation that reads the pending nonce again after every estimate
EstimateRequestsRequerying(estimates, n) == [i \in 1..(2 * n) |-> Request(IF i % 2 = 1 THEN "eth_estimateGas" ELSE "eth_getTransactionCount", RpcTarget(rpc_capability).method, RpcTarget(rpc_capability).path, i % 2 = 0 \/ estimates[(i + 1) \div 2] # 0)]

\* the eth_estimateGas requests of the first n calls
EstimateRequests(estimates, n) ==
    [i \in 1..n |->
        Request("eth_estimateGas", RpcTarget(rpc_capability).method,
                RpcTarget(rpc_capability).path, estimates[i] # 0)]

\* preflight_liquidity, its last step: _estimate_and_prepare_transactions
EstimateAndPrepare ==
    /\ pc = "priced"
    /\ LET strict == preflight_calls[Len(preflight_calls)]
       IN  \/ /\ rpc_log' = rpc_log \o RpcCalls(<< "eth_chainId" >>, 1)
              /\ Fail("PublisherError")
              /\ UNCHANGED preflight
           \/ /\ rpc_log' = rpc_log
                     \o RpcCalls(<< "eth_chainId", "eth_getTransactionCount" >>, 2)
              /\ Fail("PublisherError")
              /\ UNCHANGED preflight
           \/ /\ \/ cfg.gas_limit_multiplier # Absent
                    /\ cfg.gas_limit_multiplier[1][1] <= 0
                 \/ ~ParsePositiveOk(Get(cfg.fallback_gas_limit,
                                         DEFAULT_FALLBACK_GAS_LIMIT))
              /\ rpc_log' = rpc_log
                     \o RpcCalls(<< "eth_chainId", "eth_getTransactionCount" >>, 0)
              /\ Fail("ConfigError")
              /\ UNCHANGED preflight
           \/ /\ ~ /\ cfg.gas_limit_multiplier # Absent
                   /\ cfg.gas_limit_multiplier[1][1] <= 0
              /\ ParsePositiveOk(Get(cfg.fallback_gas_limit,
                                     DEFAULT_FALLBACK_GAS_LIMIT))
              /\ \E chain_id \in ChainIds, base \in 0..MaxBaseNonce,
                    estimates \in [1..Len(tx_calls) -> EstimateOutcomes] :
                   IF EstimateIsFatal(strict, estimates) THEN
                       /\ rpc_log' = rpc_log
                              \o RpcCalls(<< "eth_chainId",
                                             "eth_getTransactionCount" >>, 0)
                              \o EstimateRequests(estimates, FirstFailed(estimates))
                       /\ Fail("ConfigError")
                       /\ UNCHANGED preflight
                   ELSE
                       /\ rpc_log' = rpc_log
                              \o RpcCalls(<< "eth_chainId",
                                             "eth_getTransactionCount" >>, 0)
                              \o EstimateRequests(estimates, Len(tx_calls))
                       /\ preflight' =
                              [strict            |-> strict,
                               chain_id          |-> chain_id,
                               nonce_start       |-> base,
                               estimation_errors |->
                                   EstimationErrors(tx_calls, estimates, 1),
                               transactions      |->
                                   PrepareLoop(tx_calls, 1, chain_id, base, estimates,
                                       MultiplierOf(cfg.gas_limit_multiplier,
                                                    DEFAULT_GAS_LIMIT_MULTIPLIER),
                                       Get(cfg.fallback_gas_limit,
                                           DEFAULT_FALLBACK_GAS_LIMIT),
                                       gas_price_wei)]
                       /\ pc' = "preflight_done"
                       /\ UNCHANGED << error, error_detail >>
    /\ UNCHANGED << catalog, probe_responses, listing, gauges_response, base_gas_price, call, returned, runs, pending >>
    /\ UNCHANGED << cfg, args, env, inputs, dry_run, signer, rpc_capability,
                    trade_plan, position_sync, preflight_calls, tx_calls,
                    strategy_details, gas_price_wei, signed, sent, result,
                    exit_code, stdout >>

(***************************************************************************)
(* Safety gate, signer and main                                            *)
(***************************************************************************)
ResultKeys ==
    {"status", "mode", "chain", "signer_mode", "signer_address",
     "rpc_capability", "position_sync", "trade_plan", "preflight"}

\* lines 1532-1547: the dry-run report
ReportDryRun ==
    /\ pc = "preflight_done"
    /\ dry_run \/ ~inputs.live_mode
    /\ result' = [status |-> "ok", mode |-> "dry-run",
                  keys |-> ResultKeys \cup {"warning"},
                  submitted_tx_hashes |-> << >>]
    /\ pc' = "dry_run_reported"
    /\ UNCHANGED << catalog, probe_responses, listing, gauges_response, base_gas_price, call, returned, runs, pending >>
    /\ UNCHANGED << cfg, args, env, error, error_detail, inputs, dry_run, signer,
                    rpc_capability, trade_plan, position_sync, preflight_calls,
                    tx_calls, strategy_details, gas_price_wei, preflight, signed,
                    sent, exit_code, stdout, rpc_log >>

\* an unconfirmed live run that is reported as a dry run
ReportUnconfirmedLive ==
    /\ pc = "preflight_done"
    /\ ~(dry_run \/ ~inputs.live_mode)
    /\ ~args.yes_live
    /\ result' = [status |-> "ok", mode |-> "dry-run",
                  keys |-> ResultKeys \cup {"warning", "blocked_action"},
                  submitted_tx_hashes |-> << >>]
    /\ pc' = "dry_run_reported"
    /\ UNCHANGED << catalog, probe_responses, listing, gauges_response, base_gas_price, call, returned, runs, pending >>
    /\ UNCHANGED << cfg, args, env, error, error_detail, inputs, dry_run, signer,
                    rpc_capability, trade_plan, position_sync, preflight_calls,
                    tx_calls, strategy_details, gas_price_wei, preflight, signed,
                    sent, exit_code, stdout, rpc_log >>

\* lines 1549-1553: live mode without --yes-live
RejectUnconfirmedLive ==
    /\ pc = "preflight_done"
    /\ ~(dry_run \/ ~inputs.live_mode)
    /\ ~args.yes_live
    /\ Fail("ConfigError")
    /\ UNCHANGED << catalog, probe_responses, listing, gauges_response, base_gas_price, call, returned, runs, pending >>
    /\ UNCHANGED << cfg, args, env, inputs, dry_run, signer, rpc_capability,
                    trade_plan, position_sync, preflight_calls, tx_calls,
                    strategy_details, gas_price_wei, preflight, signed, sent,
                    result, exit_code, stdout, rpc_log >>

\* a submission loop that sends one request more, a retry of the last
SendRequestsRetried(n, failed_at) == RpcCalls([i \in 1..(n + 1) |-> "eth_sendRawTransaction"], failed_at)

\* the eth_sendRawTransaction requests of the first n transactions
SendRequests(n, failed_at) ==
    RpcCalls([i \in 1..n |-> "eth_sendRawTransaction"], failed_at)

\* a loop that goes on with the rest of the batch after a failed submission
SubmitsWholeBatch(n, failed_at) == n

\* lines 1404-1412 and 1433-1441: a loop over n transactions whose
\* submission failed_at raises (0: none does) handles that many of them
SubmittedCount(n, failed_at) == IF failed_at = 0 THEN n ELSE failed_at

\* a local flow that signs the whole batch before it submits anything
LocalSignedUpfront(transactions, n) == [i \in 1..Len(transactions) |-> transactions[i].unsigned_tx]

\* lines 1404-1412: the unsigned transactions the local signer signs, up to
\* and with transaction n
LocalSigned(transactions, n) == [i \in 1..n |-> transactions[i].unsigned_tx]

LocalSent(n) == [i \in 1..n |-> [index |-> i, source |-> "local", raw |-> ""]]

\* a ledger flow that submits the raw transactions last to first
LedgerSentReversed(signed_raw, n) == [i \in 1..n |-> [index |-> i, source |-> "ledger", raw |-> _normalize_hex_bytes(signed_raw[Len(signed_raw) + 1 - i]).value]]

\* lines 1433-1441: the raw transactions of the ledger flow sent up to and
\* with entry n
LedgerSent(signed_raw, n) ==
    [i \in 1..n |-> [index |-> i, source |-> "ledger",
                     raw |-> _normalize_hex_bytes(signed_raw[i]).value]]

\* the first entry of signed_raw_transactions that is not hex, 0 when none
FirstMalformed(signed_raw) ==
    IF \E i \in DOMAIN signed_raw : ~_normalize_hex_bytes(signed_raw[i]).ok
    THEN CHOOSE i \in DOMAIN signed_raw :
             /\ ~_normalize_hex_bytes(signed_raw[i]).ok
             /\ \A j \in DOMAIN signed_raw :
                    ~_normalize_hex_bytes(signed_raw[j]).ok => i <= j
    ELSE 0

LiveResult(n) ==
    [status |-> "ok", mode |-> "live",
     keys |-> ResultKeys \cup {"live_execution"},
     submitted_tx_hashes |-> [i \in 1..n |-> i]]

\* a gate that reads the configuration only
LiveGateConfigOnly == ~(dry_run \/ ~inputs.live_mode)

\* does run_once reach execute_live_trade (lines 1532 and 1549)
LiveGate == ~(dry_run \/ ~inputs.live_mode) /\ args.yes_live

\* execute_live_trade and the live result; failed_at is the submission
\* that fails, 0 when all succeed
ExecuteLiveTrade ==
    /\ pc = "preflight_done"
    /\ LiveGate
    /\ LET transactions == preflight.transactions
           n            == Len(transactions)
           signed_raw   == cfg.ledger_signed_raw
       IN  IF n = 0 THEN
               /\ Fail("ConfigError")
               /\ UNCHANGED << signed, sent, result, rpc_log >>
           ELSE IF signer.mode = "local" THEN
               \E failed_at \in 0..n :
                   LET k == SubmittedCount(n, failed_at)
                   IN  /\ signed' = signed \o LocalSigned(transactions, k)
                       /\ sent' = sent \o LocalSent(k)
                       /\ rpc_log' = rpc_log \o SendRequests(k, failed_at)
                       /\ IF failed_at = 0
                          THEN /\ result' = LiveResult(n)
                               /\ pc' = "live_executed"
                               /\ UNCHANGED << error, error_detail >>
                          ELSE /\ Fail("PublisherError")
                               /\ UNCHANGED result
           ELSE IF Len(signed_raw) # n THEN
               /\ Fail("ConfigError")
               /\ UNCHANGED << signed, sent, result, rpc_log >>
           ELSE
               \E failed_at \in 0..n :
                   LET bad == FirstMalformed(signed_raw)
                       k   == SubmittedCount(n, failed_at)
                   IN  IF bad > 0 /\ bad <= k THEN
                           /\ failed_at = 0
                           /\ sent' = sent \o LedgerSent(signed_raw, bad - 1)
                           /\ rpc_log' = rpc_log \o SendRequests(bad - 1, 0)
                           /\ Fail("ConfigError")
                           /\ UNCHANGED << signed, result >>
                       ELSE
                           /\ sent' = sent \o LedgerSent(signed_raw, k)
                           /\ rpc_log' = rpc_log \o SendRequests(k, failed_at)
                           /\ UNCHANGED signed
                           /\ IF failed_at = 0
                              THEN /\ result' = LiveResult(n)
                                   /\ pc' = "live_executed"
                                   /\ UNCHANGED << error, error_detail >>
                              ELSE /\ Fail("PublisherError")
                                   /\ UNCHANGED result
    /\ UNCHANGED << catalog, probe_responses, listing, gauges_response, base_gas_price, call, returned, runs, pending >>
    /\ UNCHANGED << cfg, args, env, inputs, dry_run, signer, rpc_capability,
                    trade_plan, position_sync, preflight_calls, tx_calls,
                    strategy_details, gas_price_wei, preflight, exit_code,
                    stdout >>

\* main, lines 1600-1612: the one object printed and the exit code; an
\* exception the handler does not catch leaves main, the interpreter writes
\* the traceback to stderr and the process exits with code 1
MainExit ==
    /\ pc \in {"dry_run_reported", "live_executed", "error"}
    /\ IF pc = "error" /\ error \notin Handled
       THEN /\ stdout' = stdout
            /\ exit_code' = 1
       ELSE IF pc = "error"
       THEN /\ stdout' = Append(stdout, [status |-> "error", mode |-> "",
                                         keys |-> {"status", "error"},
                                         error |-> error])
            /\ exit_code' = 1
       ELSE /\ stdout' = Append(stdout, [status |-> result.status,
                                         mode |-> result.mode,
                                         keys |-> result.keys, error |-> ""])
            /\ exit_code' = 0
    /\ pc' = "done"
    /\ UNCHANGED << catalog, probe_responses, listing, gauges_response, base_gas_price, call, returned, runs, pending >>
    /\ UNCHANGED << cfg, args, env, error, error_detail, inputs, dry_run, signer,
                    rpc_capability, trade_plan, position_sync, preflight_calls,
                    tx_calls, strategy_details, gas_price_wei, preflight, signed,
                    sent, result, rpc_log >>

(***************************************************************************)
(* Configurations, command lines and environments of the runs explored     *)
(***************************************************************************)
\* a configuration file that carries few of the optional keys: one probe
\* instead of the default four, no position sync, the target of custom_tx
BaseConfig ==
    [chain                  |-> "ethereum",
     wallet_mode            |-> "local",
     live_mode              |-> Absent,
     dry_run                |-> Absent,
     deposit_amount_usd     |-> Absent,
     top_n_gauges           |-> Absent,
     wallet_ledger_address  |-> "",
     strategy               |-> "gauge_stake_lp",
     rpc_publishers         |-> Absent,
     rpc_required           |-> TRUE,
     rpc_probes             |-> Some(<< [method |-> "POST", path |-> ""] >>),
     position_sync_enabled  |-> FALSE,
     stake_gauge_address    |-> Absent,
     stake_lp_token_address |-> Absent,
     lp_amount_wei          |-> Absent,
     lp_token_decimals      |-> Absent,
     approve_first          |-> Absent,
     approve_max            |-> Absent,
     custom_to              |-> Some("0xcustom"),
     custom_data            |-> Absent,
     custom_value_wei       |-> Absent,
     custom_label           |-> Absent,
     gas_price_wei          |-> Absent,
     gas_price_multiplier   |-> Absent,
     gas_limit_multiplier   |-> Absent,
     fallback_gas_limit     |-> Absent,
     ledger_signed_raw      |-> << >>]

BaseArgs == [yes_live |-> FALSE, ledger_address |-> ""]

BaseEnv == [api_key |-> "key", wallet_file |-> "0xwallet"]

\* the pre-signed raw transactions an operator may configure
SignedRawLists ==
    {<< >>, << "0xsigned0" >>, << "0xsigned0", "0xsigned1" >>,
     << "0xsigned0", "not-hex" >>, << "not-hex", "0xsigned1" >>,
     << "0xSIGNED0", " 0xsigned1 " >>}

\* every combination of the two gates, the confirmation flag, the signer
\* and the strategy
GateScenarios ==
    { [cfg  |-> [BaseConfig EXCEPT !.live_mode = lm, !.dry_run = dr,
                                   !.wallet_mode = wm, !.strategy = st,
                                   !.wallet_ledger_address =
                                       IF wm = "ledger" THEN "0xledger" ELSE "",
                                   !.ledger_signed_raw =
                                       IF st = "custom_tx" THEN << "0xsigned0" >>
                                       ELSE << "0xsigned0", "0xsigned1" >>],
       args |-> [BaseArgs EXCEPT !.yes_live = yl],
       env  |-> BaseEnv] :
        lm \in {Some(FALSE), Some(TRUE)},
        dr \in {Absent, Some(TRUE), Some(FALSE)},
        yl \in BOOLEAN,
        wm \in {"local", "ledger"},
        st \in {"gauge_stake_lp", "custom_tx"} }

\* a dry run by default and a confirmed live run, to which one change of
\* the configuration, command line or environment is applied
DryScenario == [cfg |-> BaseConfig, args |-> BaseArgs, env |-> BaseEnv]

LiveScenario ==
    [cfg  |-> [BaseConfig EXCEPT !.live_mode = Some(TRUE), !.dry_run = Some(FALSE)],
     args |-> [BaseArgs EXCEPT !.yes_live = TRUE],
     env  |-> BaseEnv]

Variations(sc) ==
    { [sc EXCEPT !.env.api_key = ""],
      [sc EXCEPT !.env.wallet_file = "missing"],
      [sc EXCEPT !.env.wallet_file = "incomplete"],
      [sc EXCEPT !.env.wallet_file = "not-json"],
      [sc EXCEPT !.env.wallet_file = "0xshort"],
      [sc EXCEPT !.cfg.chain = "solana"],
      [sc EXCEPT !.cfg.wallet_mode = "paper"],
      [sc EXCEPT !.cfg.wallet_mode = "ledger"],
      [sc EXCEPT !.cfg.wallet_mode = "ledger", !.args.ledger_address = "0xshort"],
      [sc EXCEPT !.cfg.live_mode = Absent],
      [sc EXCEPT !.cfg.deposit_amount_usd = Some(0)],
      [sc EXCEPT !.cfg.deposit_amount_usd = Some(29)],
      [sc EXCEPT !.cfg.top_n_gauges = Some(0)],
      [sc EXCEPT !.cfg.strategy = "swap"],
      [sc EXCEPT !.cfg.rpc_publishers = Some(<< "my", "-", "node" >>)],
      [sc EXCEPT !.cfg.rpc_required = FALSE],
      [sc EXCEPT !.cfg.position_sync_enabled = TRUE],
      [sc EXCEPT !.cfg.stake_lp_token_address = Some("0xlptoken")],
      [sc EXCEPT !.cfg.stake_gauge_address = Some("0xshort")],
      [sc EXCEPT !.cfg.lp_amount_wei = Some(0)],
      [sc EXCEPT !.cfg.lp_amount_wei = Some(5)],
      [sc EXCEPT !.cfg.lp_token_decimals = Some(2)],
      [sc EXCEPT !.cfg.lp_token_decimals = Some(MAX_LP_TOKEN_DECIMALS + 1)],
      [sc EXCEPT !.cfg.approve_first = Some(FALSE)],
      [sc EXCEPT !.cfg.approve_max = Some(FALSE)],
      [sc EXCEPT !.cfg.strategy = "custom_tx", !.cfg.custom_to = Absent],
      [sc EXCEPT !.cfg.strategy = "custom_tx", !.cfg.custom_data = Some("not-hex")],
      [sc EXCEPT !.cfg.strategy = "custom_tx", !.cfg.custom_data = Some("0xa9059cbb"),
                 !.cfg.custom_value_wei = Some(5), !.cfg.custom_label = Some("claim")],
      [sc EXCEPT !.cfg.strategy = "custom_tx", !.cfg.custom_value_wei = Some(0 - 1)],
      [sc EXCEPT !.cfg.strategy = "custom_tx", !.cfg.custom_label = Some("")],
      [sc EXCEPT !.cfg.gas_price_wei = Some(1000)],
      [sc EXCEPT !.cfg.gas_price_wei = Some(0)],
      [sc EXCEPT !.cfg.gas_price_multiplier = Some(<< 0, 1 >>)],
      [sc EXCEPT !.cfg.gas_price_multiplier = Some(<< 3, 2 >>)],
      [sc EXCEPT !.cfg.gas_limit_multiplier = Some(<< 0, 1 >>)],
      [sc EXCEPT !.cfg.gas_limit_multiplier = Some(<< 3, 2 >>)],
      [sc EXCEPT !.cfg.gas_limit_multiplier = Some(<< 11, 10 >>)],
      [sc EXCEPT !.cfg.fallback_gas_limit = Some(0)],
      [sc EXCEPT !.cfg.fallback_gas_limit = Some(10000)] }

\* a confirmed live run of the ledger flow with each list of raw transactions
LedgerScenarios ==
    { [LiveScenario EXCEPT !.cfg.wallet_mode = "ledger",
                           !.args.ledger_address = "0xledger",
                           !.cfg.ledger_signed_raw = raws] :
        raws \in SignedRawLists }

\* the probe lists an operator may configure: none (the default probes),
\* a health check before the JSON-RPC probe, a health check alone
ProbeLists ==
    {Absent,
     Some(<< [method |-> "GET", path |-> "/health"],
             [method |-> "POST", path |-> "/rpc"] >>),
     Some(<< [method |-> "GET", path |-> "/health"] >>)}

\* a dry run of custom_tx with each probe list, required or not, the
\* publisher taken from the configuration or from the catalog
ProbeScenarios ==
    { [DryScenario EXCEPT !.cfg.strategy = "custom_tx",
                          !.cfg.rpc_probes = probes,
                          !.cfg.rpc_required = required,
                          !.cfg.rpc_publishers = publishers] :
        probes \in ProbeLists, required \in BOOLEAN,
        publishers \in {Absent, Some(<< "my", "-", "node" >>)} }

\* a live run with position sync enabled that was not confirmed
SyncScenarios ==
    { [LiveScenario EXCEPT !.cfg.position_sync_enabled = TRUE,
                           !.args.yes_live = FALSE] }

Scenarios ==
    GateScenarios \cup LedgerScenarios \cup ProbeScenarios \cup SyncScenarios
    \cup Variations(DryScenario) \cup Variations(LiveScenario)

RunStart(sc) ==
    /\ cfg = sc.cfg
    /\ args = sc.args
    /\ env = sc.env
    /\ pc = "init"
    /\ error = ""
    /\ inputs = NoInputs
    /\ dry_run = DEFAULT_DRY_RUN
    /\ signer = NoSigner
    /\ rpc_capability = NoCapability
    /\ trade_plan = NoPlan
    /\ position_sync = "skipped"
    /\ preflight_calls = << >>
    /\ tx_calls = << >>
    /\ strategy_details = NoDetails
    /\ gas_price_wei = BigZero
    /\ preflight = NoPreflight
    /\ signed = << >>
    /\ sent = << >>
    /\ result = NoResult
    /\ exit_code = 0 - 1
    /\ stdout = << >>
    /\ rpc_log = << >>
    /\ error_detail = NoErrorDetail
    /\ catalog = << >>
    /\ probe_responses = << >>
    /\ listing = << >>
    /\ gauges_response = NoGauges
    /\ base_gas_price = 0
    /\ call = NoCall
    /\ returned = << >>

\* one invocation of main on its own
InitRun(sc) ==
    /\ RunStart(sc)
    /\ runs = << >>
    /\ pending = << >>

Init == \E sc \in Scenarios : InitRun(sc)

Next ==
    \/ ResolveInputs
    \/ CheckRpcCapability
    \/ FetchAndPlan
    \/ SyncPositions
    \/ BuildTradeTransactions
    \/ ResolveGasPrice
    \/ EstimateAndPrepare
    \/ ReportDryRun
    \/ RejectUnconfirmedLive
    \/ ExecuteLiveTrade
    \/ MainExit

Spec == Init /\ [][Next]_vars

(***************************************************************************)
(* The helpers of discovery, of the gateway envelope and of the fetcher,   *)
(* applied on their own to the responses a gateway may give                *)
(***************************************************************************)
\* the publishers a catalog may list: candidates of the chain with equal
\* and with different scores, an inactive one, one that is not RPC-like,
\* one of another chain
EthereumNode ==
    Publisher(<< "ethereum", "-", "node" >>, << "node" >>, << "rpc" >>, << >>, TRUE)

EthereumPlain ==
    Publisher(<< "ethereum" >>, << "rpc" >>, << >>, << >>, TRUE)

SerenMainnetInactive ==
    Publisher(<< "seren", "-", "ethereum", "-", "mainnet" >>, << "ethereum" >>,
              << "rpc", "ethereum" >>, << "json", "-", "rpc" >>, FALSE)

EthereumIndexer ==
    Publisher(<< "seren", "-", "ethereum", "-", "json" >>, << "ethereum" >>,
              << "ethereum" >>, << "json", " ", "node" >>, TRUE)

PublisherPool ==
    {SerenEthereum, AlchemyEthereum, EthereumNode, EthereumPlain,
     SerenMainnetInactive, EthereumIndexer, PolygonNode}

\* the longest catalog, listing and candidate list explored
MaxListed == 3

\* the sequences of at most MaxListed different members of a pool
ListsOf(pool) ==
    UNION {{items \in [1..n -> pool] :
               \A i, j \in 1..n : i # j => items[i] # items[j]} :
           n \in 0..MaxListed}

\* the status values of a payload: none, an int at and around the bounds of
\* the accepted range, a bool (an int for isinstance), a string
BoolStatus == Some([type |-> "bool", value |-> 1])

Statuses ==
    {Absent, IntStatus(199), IntStatus(200), IntStatus(299), IntStatus(300),
     IntStatus(404), BoolStatus, StrStatus}

\* what a payload may carry under "body"
Bodies == {Absent, Some(RpcResult), Some(RpcError), Some(NotAnObject),
           Some(JsonObject(Absent, Absent, Some("empty"), Some("0x1")))}

\* the payloads client.call may return
Payloads ==
    {NotAnObject}
    \cup {JsonObject(status, body, Absent, rpc_result) :
            status \in Statuses, body \in Bodies,
            rpc_result \in {Absent, Some("0x2")}}

\* the gauges /getGauges may list: of the chain under several spellings,
\* of another chain, with a malformed address, with reward values that are
\* numbers, numeric strings, lists, booleans, missing or not a number
GaugePool ==
    {Gauge("a", "ethereum", "0xgauge", "0xlptoken", JsonNumber(2),
           Scalar(JsonNumber(5)), Scalar(JsonNull)),
     Gauge("b", "Ethereum", "0xgauge2", "", JsonNull,
           List(<< JsonNumber(1), JsonText(Float(7)) >>), Scalar(JsonBool)),
     Gauge("c", " ethereum ", "0xgauge3", "not-hex", JsonNumber(3),
           Scalar(JsonNull), Scalar(JsonWord)),
     Gauge("d", "ethereum", "not-hex", "0xlptoken", JsonNumber(2),
           Scalar(JsonNumber(9)), Scalar(JsonNull)),
     Gauge("e", "polygon", "0xgauge2", "0xlptoken", JsonNumber(2),
           Scalar(JsonNumber(9)), Scalar(JsonNull)),
     Gauge("f", "ethereum", "0xgauge2", "0xlptoken", JsonNumber(2),
           Scalar(JsonNull), Scalar(JsonText(NaN))),
     Gauge("g", "ethereum", "0xgauge3", "0xlptoken", JsonNumber(2),
           Scalar(JsonNull), List(<< JsonNumber(5), JsonNumber(1) >>))}

\* the values of top_n_gauges
Limits == {1, 2, 3}

\* the helper calls explored
Call(fn, arg) == [fn |-> fn, arg |-> arg]

(***************************************************************************)
(* The Spectra PT planner (src/spectra/spectra-pt-yield-trader).  Its      *)
(* run_once is a function of the configuration; the names it shares with   *)
(* the Curve agent carry the prefix Spectra.                               *)
(***************************************************************************)
\* JSON values a flag is read from, by their JSON text: the two booleans,
\* null, the numbers 0 and 1, the empty string and the string "false"
JsonFlags == {"true", "false", "null", "0", "1", "''", "'false'"}

\* bool(raw): None, False, 0 and the empty string are false, every other
\* value is true, a non-empty string included
PyBool(raw) == raw \notin {"false", "null", "0", "''"}

Spectra_DEFAULT_DRY_RUN == "true"

Spectra_SUPPORTED_CHAINS ==
    {"ethereum", "base", "arbitrum", "optimism", "avalanche", "bsc", "sonic",
     "flare", "katana", "monad"}

\* _resolve_inputs, the fields explored: does it raise ConfigError
Spectra_resolve_inputs_raises(c) ==
    \/ c.chain \notin Spectra_SUPPORTED_CHAINS
    \/ c.capital_usd <= 0
    \/ c.max_price_impact_pct < 0
    \/ c.max_price_impact_pct > 10

\* _resolve_inputs: capital_usd, max_price_impact_pct and live_mode
Spectra_resolve_inputs(c) ==
    [capital_usd |-> c.capital_usd,
     max_price_impact_pct |-> c.max_price_impact_pct,
     live_mode |-> PyBool(Get(c.live_mode, "false"))]

\* _resolve_policies: [raised, max_notional_usd, max_slippage_bps]
Spectra_resolve_policies(c) ==
    [raised |-> Get(c.max_notional_usd, 1000) <= 0 \/ Get(c.max_slippage_bps, 200) < 1,
     max_notional_usd |-> Get(c.max_notional_usd, 1000),
     max_slippage_bps |-> Get(c.max_slippage_bps, 200)]

\* _resolve_execution: confirm_live_handoff
Spectra_resolve_execution(c) ==
    [confirm_live_handoff |-> PyBool(Get(c.confirm_live_handoff, "false"))]

\* _guard_policy: the policies violated, in the order they are checked; the
\* price impact is a whole percentage, so int(round(pct * 100)) is exact
Spectra_guard_policy(inputs_, policies) ==
    (IF inputs_.capital_usd > policies.max_notional_usd
     THEN << "max_notional_usd" >> ELSE << >>)
    \o (IF inputs_.max_price_impact_pct * 100 > policies.max_slippage_bps
        THEN << "max_slippage_bps" >> ELSE << >>)

\* a planner that asks for live handoff whatever dry_run says
Spectra_live_requested_ignoring_dry_run(live_mode, dry) == live_mode

\* line 305: live_requested = bool(inputs["live_mode"] and not dry_run)
Spectra_live_requested(live_mode, dry) == live_mode /\ ~dry

\* what run_once returned: raised is a ConfigError; has_dry_run and
\* has_handoff say whether the result carries the keys dry_run and
\* execution_handoff, blocked_action is "" when the key is missing
SpectraResult(raised, status, error_code, has_dry_run, dry, blocked_action, has_handoff, enabled) ==
    [raised |-> raised, status |-> status, error_code |-> error_code,
     has_dry_run |-> has_dry_run, dry_run |-> dry,
     blocked_action |-> blocked_action, has_handoff |-> has_handoff,
     enabled |-> enabled]

\* run_once of the planner, lines 286-340
Spectra_run_once(c) ==
    LET dry       == PyBool(Get(c.dry_run, Spectra_DEFAULT_DRY_RUN))
        inputs_   == Spectra_resolve_inputs(c)
        policies  == Spectra_resolve_policies(c)
        execution == Spectra_resolve_execution(c)
        live_requested == Spectra_live_requested(inputs_.live_mode, dry)
        live_confirmed == execution.confirm_live_handoff
    IN  IF Spectra_resolve_inputs_raises(c) \/ policies.raised
        THEN SpectraResult(TRUE, "", "", FALSE, FALSE, "", FALSE, FALSE)
        ELSE IF Spectra_guard_policy(inputs_, policies) # << >>
        THEN SpectraResult(FALSE, "error", "policy_violation", FALSE, FALSE, "",
                           FALSE, FALSE)
        ELSE IF live_requested /\ ~live_confirmed
        THEN SpectraResult(FALSE, "ok", "", TRUE, TRUE, "execution_handoff",
                           FALSE, FALSE)
        ELSE SpectraResult(FALSE, "ok", "", TRUE,
                           ~(live_requested /\ live_confirmed), "", TRUE,
                           live_requested /\ live_confirmed)

\* the configurations of the planner explored
SpectraConfigs ==
    [dry_run : {Absent, Some("true"), Some("false"), Some("'false'")},
     live_mode : {Absent, Some("true"), Some("false"), Some("1")},
     confirm_live_handoff : {Absent, Some("true"), Some("false")},
     chain : {"base", "solana"},
     capital_usd : {0, 100, 5000},
     max_price_impact_pct : {2, 5},
     max_notional_usd : {Absent, Some(10000)},
     max_slippage_bps : {Absent}]

\* the responses to the /getGauges request of a fetch_top_gauges call
FetchCalls ==
    {[response |-> Answered(Envelope(200, WithData(data))), limit |-> limit] :
        data \in ListsOf(GaugePool), limit \in Limits}
    \cup {[response |-> response, limit |-> 1] :
            response \in {Raised, Answered(RpcResult),
                          Answered(Envelope(502, WithData(<< >>)))}}

\* a helper is about to be called, in a process configured as the dry run
\* by default
HelperStartWith(c, value) ==
    \E sc \in {DryScenario} :
        /\ cfg = sc.cfg
        /\ args = sc.args
        /\ env = sc.env
        /\ pc = "call"
        /\ error = ""
        /\ inputs = _resolve_inputs(sc.cfg)
        /\ dry_run = DEFAULT_DRY_RUN
        /\ signer = NoSigner
        /\ rpc_capability = NoCapability
        /\ trade_plan = NoPlan
        /\ position_sync = "skipped"
        /\ preflight_calls = << >>
        /\ tx_calls = << >>
        /\ strategy_details = NoDetails
        /\ gas_price_wei = BigZero
        /\ preflight = NoPreflight
        /\ signed = << >>
        /\ sent = << >>
        /\ result = NoResult
        /\ exit_code = 0 - 1
        /\ stdout = << >>
        /\ rpc_log = << >>
        /\ error_detail = NoErrorDetail
        /\ catalog = << >>
        /\ probe_responses = << >>
        /\ listing = << >>
        /\ gauges_response = NoGauges
        /\ base_gas_price = 0
        /\ call = c
        /\ returned = value
        /\ runs = << >>
        /\ pending = << >>

HelperStart(c) == HelperStartWith(c, << >>)

(***************************************************************************)
(* SerenPublisherClient.list_publishers, page by page                      *)
(***************************************************************************)
DEFAULT_MAX_PAGES == 5

\* an item of the data list of a page: a JSON object or something else
Item(object, slug) == [object |-> object, slug |-> slug]

IsObject(item) == item.object

\* what the gateway may answer to a catalog request: the request fails, the
\* data key holds no list, or a page with its items, has_more and count
FailedPage == [kind |-> "raised", items |-> << >>, has_more |-> FALSE, count |-> Absent]

NotAList == [kind |-> "not_a_list", items |-> << >>, has_more |-> FALSE, count |-> Absent]

Page(items, has_more, count) ==
    [kind |-> "page", items |-> items, has_more |-> has_more, count |-> count]

CatalogPages ==
    {FailedPage, NotAList}
    \cup {Page(items, has_more, count) :
            items \in {<< >>, << Item(FALSE, "x") >>,
                       << Item(TRUE, "a"), Item(FALSE, "x") >>,
                       << Item(TRUE, "b") >>},
            has_more \in BOOLEAN,
            count \in {Absent, Some(0), Some(3)}}

\* the loop of list_publishers before its first request
ListingStart ==
    [offset |-> 0, offsets |-> << >>, pages |-> << >>, publishers |-> << >>,
     error |-> "", finished |-> FALSE]

\* an offset that moves by the count of the page alone
NextOffsetByCount(offset, page) == offset + Get(page.count, 0)

\* lines 195-199: offset += count when count is a positive integer,
\* otherwise offset += len(page_items)
NextOffset(offset, page) ==
    IF page.count # Absent /\ page.count[1] > 0
    THEN offset + page.count[1]
    ELSE offset + Len(SelectSeq(page.items, IsObject))

\* lines 180-199: one turn of the loop, the request answered by page
ListingTurn(state, page, max_pages) ==
    LET page_items == SelectSeq(page.items, IsObject)
        asked      == [state EXCEPT !.offsets = Append(state.offsets, state.offset)]
    IN  IF page.kind # "page"
        THEN [asked EXCEPT !.error = "PublisherError", !.finished = TRUE]
        ELSE IF ~page.has_more \/ page_items = << >>
        THEN [asked EXCEPT !.pages = Append(state.pages, page),
                           !.publishers = state.publishers \o page_items,
                           !.finished = TRUE]
        ELSE [asked EXCEPT !.pages = Append(state.pages, page),
                           !.publishers = state.publishers \o page_items,
                           !.offset = NextOffset(state.offset, page),
                           !.finished = Len(state.pages) + 1 >= max_pages]

HelperInit ==
    \/ \E publishers \in ListsOf(PublisherPool) :
           HelperStart(Call("_discovered_rpc_publishers", publishers))
    \/ \E payload \in Payloads :
           HelperStart(Call("_unwrap_gateway_response", payload))
    \/ \E payload \in Payloads : HelperStart(Call("_rpc_call", payload))
    \/ \E fetch \in FetchCalls : HelperStart(Call("fetch_top_gauges", fetch))
    \/ \E c \in SpectraConfigs : HelperStart(Call("spectra.run_once", c))
    \/ HelperStartWith(Call("list_publishers", [max_pages |-> DEFAULT_MAX_PAGES]),
                       ListingStart)

\* what a helper call leaves alone
HelperFrame ==
    UNCHANGED << cfg, args, env, error, inputs, dry_run, signer, rpc_capability,
                 trade_plan, position_sync, preflight_calls, tx_calls,
                 strategy_details, gas_price_wei, preflight, signed, sent,
                 result, exit_code, stdout, error_detail, catalog,
                 probe_responses, listing, gauges_response, base_gas_price,
                 call, runs, pending >>

\* _discovered_rpc_publishers on the publishers of the catalog
Discover ==
    /\ pc = "call"
    /\ call.fn = "_discovered_rpc_publishers"
    /\ returned' = _discovered_rpc_publishers(call.arg)
    /\ rpc_log' = rpc_log \o << Request("publishers", "GET", "/publishers", TRUE) >>
    /\ pc' = "returned"
    /\ HelperFrame

\* _unwrap_gateway_response on a payload
Unwrap ==
    /\ pc = "call"
    /\ call.fn = "_unwrap_gateway_response"
    /\ returned' = _unwrap_gateway_response(call.arg)
    /\ pc' = "returned"
    /\ UNCHANGED rpc_log
    /\ HelperFrame

\* _rpc_call, client.call having returned the payload
RpcCall ==
    /\ pc = "call"
    /\ call.fn = "_rpc_call"
    /\ returned' = _rpc_call(call.arg)
    /\ rpc_log' = rpc_log
           \o << Request("eth_chainId", "POST", "", ~_rpc_call(call.arg).raised) >>
    /\ pc' = "returned"
    /\ HelperFrame

\* fetch_top_gauges, its request answered by the response
FetchTopGauges ==
    /\ pc = "call"
    /\ call.fn = "fetch_top_gauges"
    /\ \E fetched \in {fetch_top_gauges(call.arg.response, inputs.chain,
                                        call.arg.limit)} :
         /\ returned' = fetched
         /\ rpc_log' = rpc_log
                \o << Request("getGauges", "GET", "/getGauges",
                              fetched.error # "PublisherError") >>
    /\ pc' = "returned"
    /\ HelperFrame

\* run_once of the Spectra planner on a configuration
SpectraRunOnce ==
    /\ pc = "call"
    /\ call.fn = "spectra.run_once"
    /\ returned' = Spectra_run_once(call.arg)
    /\ pc' = "returned"
    /\ UNCHANGED rpc_log
    /\ HelperFrame

\* list_publishers: the next catalog request and what the loop does with
\* the page it is answered with
ListPublishersPage ==
    /\ pc = "call"
    /\ call.fn = "list_publishers"
    /\ \E page \in CatalogPages :
           /\ returned' = ListingTurn(returned, page, call.arg.max_pages)
           /\ rpc_log' = Append(rpc_log, Request("publishers", "GET", "/publishers",
                                                page.kind = "page"))
    /\ pc' = IF returned'.finished THEN "returned" ELSE "call"
    /\ HelperFrame

HelperNext ==
    \/ Discover
    \/ Unwrap
    \/ RpcCall
    \/ FetchTopGauges
    \/ SpectraRunOnce
    \/ ListPublishersPage

HelperSpec == HelperInit /\ [][HelperNext]_vars

(***************************************************************************)
(* Two invocations of the orchestrator side by side.  run_once builds its  *)
(* client and every value it works with from its arguments (lines          *)
(* 1450-1461) and keeps nothing between invocations; what two runs have in *)
(* common is the node behind the publisher, which counts the pending       *)
(* transactions of every account on every chain.                           *)
(***************************************************************************)
RunIds == {1, 2}

Wallets == {"0xwallet", "0xledger"}

RunChains == {"ethereum", "polygon"}

MaxBatch == 2

\* the pending counts of the accounts when the runs start
StartCounts == {0, 7}

\* a run that has not started: its signer address, its chain, whether it is
\* a confirmed live run, and the number of calls of its batch
NewRun(address, chain, live, n) ==
    [address |-> address, chain |-> chain, live |-> live, n |-> n,
     at |-> "start", nonce_start |-> 0, nonces |-> << >>, submitted |-> 0]

\* a preparation that reads the pending count of the address on ethereum
\* whatever the chain of the run
PendingNonceOnEthereum(counts, address, chain) == counts[<< address, "ethereum" >>]

\* lines 1178-1185: eth_getTransactionCount(signer.address, "pending")
\* through the rpc_target of the chain of the run
PendingNonce(counts, address, chain) == counts[<< address, chain >>]

\* lines 1190-1244: the nonces of a batch of n calls, next_nonce being
\* incremented after every call
BatchNonces(next_nonce, n) == [i \in 1..n |-> next_nonce + i - 1]

\* what the node may answer to a transaction: one that carries the next
\* nonce or a later one is taken; one that carries a nonce already used by
\* a pending transaction replaces it or is rejected
NodeAccepts(count, nonce) == IF nonce >= count THEN {TRUE} ELSE BOOLEAN

\* the pending count of an account after the node took a transaction
CountAfter(count, nonce) == IF nonce + 1 > count THEN nonce + 1 ELSE count

ConcurrentInit ==
    /\ RunStart(DryScenario)
    /\ \E count \in StartCounts : pending = [k \in Wallets \X RunChains |-> count]
    /\ runs \in [RunIds -> {NewRun(address, chain, live, n) :
                                address \in Wallets, chain \in RunChains,
                                live \in BOOLEAN, n \in 1..MaxBatch}]

\* what the two runs leave alone: the variables of the single invocation
ConcurrentFrame ==
    UNCHANGED << cfg, args, env, pc, error, inputs, dry_run, signer,
                 rpc_capability, trade_plan, position_sync, preflight_calls,
                 tx_calls, strategy_details, gas_price_wei, preflight, signed,
                 sent, result, exit_code, stdout, rpc_log, error_detail,
                 catalog, probe_responses, listing, gauges_response,
                 base_gas_price, call, returned >>

\* _estimate_and_prepare_transactions of run r: the pending nonce is read
\* once and the batch is numbered from it
Prepare(r) ==
    /\ runs[r].at = "start"
    /\ runs' = [runs EXCEPT
                   ![r].nonce_start = PendingNonce(pending, runs[r].address, runs[r].chain),
                   ![r].nonces = BatchNonces(PendingNonce(pending, runs[r].address,
                                                         runs[r].chain), runs[r].n),
                   ![r].at = "prepared"]
    /\ UNCHANGED pending
    /\ ConcurrentFrame

\* run_once, lines 1532-1547: a run that is not a confirmed live run
\* reports its preflight and submits nothing
ReportPrepared(r) ==
    /\ runs[r].at = "prepared"
    /\ ~runs[r].live
    /\ runs' = [runs EXCEPT ![r].at = "done"]
    /\ UNCHANGED pending
    /\ ConcurrentFrame

\* execute_live_trade, lines 1404-1412: the next transaction of run r is
\* signed and sent; a rejected one ends the run
Submit(r) ==
    /\ runs[r].at = "prepared"
    /\ runs[r].live
    /\ LET key   == << runs[r].address, runs[r].chain >>
           nonce == runs[r].nonces[runs[r].submitted + 1]
       IN  \E accepted \in NodeAccepts(pending[key], nonce) :
               IF accepted
               THEN /\ pending' = [pending EXCEPT ![key] = CountAfter(pending[key], nonce)]
                    /\ runs' = [runs EXCEPT
                                   ![r].submitted = runs[r].submitted + 1,
                                   ![r].at = IF runs[r].submitted + 1 = runs[r].n
                                             THEN "done" ELSE "prepared"]
               ELSE /\ runs' = [runs EXCEPT ![r].at = "error"]
                    /\ UNCHANGED pending
    /\ ConcurrentFrame

ConcurrentNext == \E r \in RunIds : Prepare(r) \/ ReportPrepared(r) \/ Submit(r)

ConcurrentSpec == ConcurrentInit /\ [][ConcurrentNext]_vars


(***************************************************************************)
(* Properties of the safety gate                                           *)
(***************************************************************************)
\* the requests of one method among those issued so far
RequestsOf(method) == {i \in DOMAIN rpc_log : rpc_log[i].rpc = method}

\* something was signed or submitted
SignedOrSubmitted ==
    \/ signed # << >>
    \/ sent # << >>
    \/ RequestsOf("eth_sendRawTransaction") # {}

\* C1: an eth_sendRawTransaction request or a local signature is issued only
\* if inputs.live_mode is true and --yes-live was passed; live_mode = true in
\* the configuration alone never signs or submits
C1_SubmitOnlyWhenConfirmedLive ==
    /\ SignedOrSubmitted => inputs.live_mode /\ args.yes_live
    /\ cfg.live_mode = Some(TRUE) /\ ~args.yes_live => ~SignedOrSubmitted

C1_Witness ==
    /\ inputs.live_mode
    /\ args.yes_live
    /\ signer.mode = "local"
    /\ Len(signed) = 2
    /\ Len(sent) = 2
    /\ Cardinality(RequestsOf("eth_sendRawTransaction")) = 2

\* the run returned a result (it did not end in an exception)
Completed == pc \in {"dry_run_reported", "live_executed"} \/ (pc = "done" /\ exit_code = 0)

\* C2: when dry_run is true (also by omission from the configuration) or
\* inputs.live_mode is false, a run that completes never signs or submits,
\* with or without --yes-live, and its result has mode "dry-run", carries
\* the trade plan and the preflight and has no live_execution field and no
\* submitted transaction hashes
C2_DryRunNeverSigns ==
    (cfg.dry_run \in {Absent, Some(TRUE)} \/ dry_run \/ ~inputs.live_mode)
        => /\ ~SignedOrSubmitted
           /\ pc # "live_executed"
           /\ Completed =>
                  /\ result.status = "ok"
                  /\ result.mode = "dry-run"
                  /\ {"trade_plan", "preflight"} \subseteq result.keys
                  /\ "live_execution" \notin result.keys
                  /\ result.submitted_tx_hashes = << >>
           /\ pc = "done" /\ exit_code = 0 =>
                  /\ stdout[Len(stdout)].mode = "dry-run"
                  /\ "live_execution" \notin stdout[Len(stdout)].keys

C2_Witness ==
    /\ pc = "done"
    /\ exit_code = 0
    /\ cfg.dry_run = Absent
    /\ inputs.live_mode
    /\ args.yes_live
    /\ result.mode = "dry-run"
    /\ Len(preflight.transactions) = 2

\* an unconfirmed live run: live_mode true, dry_run false, no --yes-live
UnconfirmedLive == inputs.live_mode /\ ~dry_run /\ ~args.yes_live

\* the preflight of the run was completed
PreflightDone == preflight # NoPreflight

ConfirmedLive == inputs.live_mode /\ ~dry_run /\ args.yes_live

\* C4 as stated: a confirmed live run that reaches the signer has run
\* preflight twice, first without and then with strict estimation, and every
\* other run runs preflight without strict estimation
C4_Original ==
    /\ (ConfirmedLive /\ SignedOrSubmitted) => preflight_calls = << FALSE, TRUE >>
    /\ ~ConfirmedLive => \A i \in DOMAIN preflight_calls : ~preflight_calls[i]

\* C4 as amended: preflight runs at most once in a run, with strict
\* estimation exactly when the run is a confirmed live run; the transactions
\* handed to the signer are those of that one strict preflight
C4_SinglePreflight ==
    /\ Len(preflight_calls) <= 1
    /\ \A i \in DOMAIN preflight_calls :
           preflight_calls[i] = (inputs.live_mode /\ ~dry_run /\ args.yes_live)
    /\ PreflightDone => preflight.strict = preflight_calls[1]
    /\ SignedOrSubmitted =>
           /\ preflight_calls = << TRUE >>
           /\ preflight.strict
           /\ \A i \in DOMAIN signed :
                  signed[i] = preflight.transactions[i].unsigned_tx

C4_Witness ==
    /\ ConfirmedLive
    /\ pc = "live_executed"
    /\ preflight_calls = << TRUE >>
    /\ Len(signed) = 2
    /\ signed[2] = preflight.transactions[2].unsigned_tx

\* the run ended with the exception a failed strict estimate raises: the
\* last request is an eth_estimateGas and no preflight was returned
StrictEstimateFailed ==
    /\ pc \in {"error", "done"}
    /\ ~PreflightDone
    /\ rpc_log # << >>
    /\ rpc_log[Len(rpc_log)].rpc = "eth_estimateGas"
    /\ ~rpc_log[Len(rpc_log)].ok

\* C5: no transaction whose gas limit comes from the fallback gas limit is
\* signed or submitted: whatever is signed or submitted comes from a strict
\* preflight without estimation errors, and a confirmed live run in which an
\* eth_estimateGas request fails ends with ConfigError without any
\* eth_sendRawTransaction request
C5_NoFallbackGasSubmitted ==
    /\ SignedOrSubmitted =>
           /\ preflight.strict
           /\ preflight.estimation_errors = << >>
           /\ \A i \in DOMAIN preflight.transactions :
                  /\ ~preflight.transactions[i].estimate_error
                  /\ preflight.transactions[i].estimated_gas \in EstimateOutcomes \ {0}
    /\ (ConfirmedLive /\ PreflightDone) => preflight.estimation_errors = << >>
    /\ StrictEstimateFailed =>
           /\ ConfirmedLive
           /\ error = "ConfigError"
           /\ ~SignedOrSubmitted

C5_Witness ==
    /\ StrictEstimateFailed
    /\ ConfirmedLive
    /\ pc = "done"
    /\ exit_code = 1
    /\ Len(tx_calls) = 2
    /\ Cardinality(RequestsOf("eth_estimateGas")) = 2
    /\ sent = << >>

(***************************************************************************)
(* Properties of the gas and nonce resolver                                *)
(***************************************************************************)
\* C6: the nonces of the N prepared transactions are nonce_start,
\* nonce_start + 1, ..., nonce_start + N - 1 in call order, one transaction
\* per call, whether or not an estimate failed and fell back; nonce_start is
\* the pending nonce of the one eth_getTransactionCount request of the
\* preparation
C6_NoncesAreConsecutive ==
    PreflightDone =>
        /\ Len(preflight.transactions) = Len(tx_calls)
        /\ \A i \in DOMAIN preflight.transactions :
               /\ preflight.transactions[i].unsigned_tx.nonce
                      = preflight.nonce_start + i - 1
               /\ preflight.transactions[i].label = tx_calls[i].label
        /\ preflight.nonce_start \in 0..MaxBaseNonce
        /\ Cardinality(RequestsOf("eth_getTransactionCount")) = 1

C6_Witness ==
    /\ PreflightDone
    /\ ~preflight.strict
    /\ preflight.nonce_start = 1
    /\ Len(preflight.transactions) = 2
    /\ preflight.transactions[1].estimate_error
    /\ ~preflight.transactions[2].estimate_error
    /\ preflight.transactions[2].unsigned_tx.nonce = 2

(***************************************************************************)
(* Properties of the transaction builder                                   *)
(***************************************************************************)
\* the positions of the calls with one label
CallsLabelled(calls, label) == {i \in DOMAIN calls : calls[i].label = label}

\* the builder returned the batch of the gauge_stake_lp strategy
GaugeBatchBuilt == strategy_details.strategy = "gauge_stake_lp"

\* C7: in a gauge_stake_lp batch an approve_lp_token call, if present, is
\* the first call and the deposit_to_gauge call comes after it; no deposit
\* precedes an approval; preparation keeps the order (the approval has the
\* lower nonce) and so do signing and submission
C7_ApproveBeforeDeposit ==
    GaugeBatchBuilt =>
        /\ \A i \in CallsLabelled(tx_calls, "approve_lp_token") :
               /\ i = 1
               /\ \E j \in CallsLabelled(tx_calls, "deposit_to_gauge") : j > i
        /\ \A j \in CallsLabelled(tx_calls, "deposit_to_gauge") :
               \A i \in CallsLabelled(tx_calls, "approve_lp_token") : i < j
        /\ PreflightDone =>
               \A i \in CallsLabelled(preflight.transactions, "approve_lp_token") :
                   \A j \in CallsLabelled(preflight.transactions, "deposit_to_gauge") :
                       /\ i < j
                       /\ preflight.transactions[i].unsigned_tx.nonce
                              < preflight.transactions[j].unsigned_tx.nonce
        /\ \A i \in DOMAIN signed :
               /\ signed[i].to = tx_calls[i].to
               /\ signed[i].data = tx_calls[i].data
        /\ \A i \in DOMAIN sent : sent[i].index = i
        /\ Len(sent) = Cardinality(RequestsOf("eth_sendRawTransaction"))

C7_Witness ==
    /\ GaugeBatchBuilt
    /\ signer.mode = "local"
    /\ pc = "live_executed"
    /\ tx_calls[1].label = "approve_lp_token"
    /\ tx_calls[2].label = "deposit_to_gauge"
    /\ signed[1].data.signature = "approve(address,uint256)"
    /\ signed[2].data.signature = "deposit(uint256)"
    /\ signed[1].nonce + 1 = signed[2].nonce

\* the settings of the builder, as it reads them
ApproveFirst == Get(cfg.approve_first, TRUE)

ApproveMax == Get(cfg.approve_max, TRUE)

\* the allowance read is below the deposit amount
AllowanceBelowAmount ==
    BigLess(strategy_details.allowance_wei, strategy_details.lp_amount_wei)

\* the batch ends with the one deposit_to_gauge call of the amount
EndsWithOneDeposit ==
    /\ tx_calls # << >>
    /\ CallsLabelled(tx_calls, "deposit_to_gauge") = {Len(tx_calls)}
    /\ tx_calls[Len(tx_calls)].data
           = _encode_function_call("deposit(uint256)", "",
                                   strategy_details.lp_amount_wei)

\* an approval is in the batch exactly when approve_first is enabled and the
\* allowance is below the amount, and it approves MAX_UINT256 or the amount
ApprovalIffNeeded ==
    /\ (CallsLabelled(tx_calls, "approve_lp_token") # {})
           = (ApproveFirst /\ AllowanceBelowAmount)
    /\ \A i \in CallsLabelled(tx_calls, "approve_lp_token") :
           /\ Len(tx_calls) = 2
           /\ tx_calls[i].data.signature = "approve(address,uint256)"
           /\ tx_calls[i].data.uint_arg
                  = IF ApproveMax THEN MAX_UINT256
                    ELSE strategy_details.lp_amount_wei

\* C8 as stated: the batch ends with exactly one deposit, holds an approval
\* iff approve_first is enabled and the allowance is below the amount, of
\* MAX_UINT256 or the exact amount; and whenever the allowance is below the
\* amount the deposit is preceded by an approval
C8_Original ==
    GaugeBatchBuilt =>
        /\ EndsWithOneDeposit
        /\ ApprovalIffNeeded
        /\ AllowanceBelowAmount => tx_calls[1].label = "approve_lp_token"

\* C8 as amended: as stated, but the deposit is preceded by an approval
\* whenever the allowance is below the amount and approve_first is enabled;
\* with approve_first disabled the batch is the deposit alone
C8_ApprovalWhenEnabledAndNeeded ==
    GaugeBatchBuilt =>
        /\ EndsWithOneDeposit
        /\ ApprovalIffNeeded
        /\ (AllowanceBelowAmount /\ ApproveFirst)
               => tx_calls[1].label = "approve_lp_token" /\ Len(tx_calls) = 2
        /\ ~ApproveFirst => Len(tx_calls) = 1

C8_Witness ==
    /\ GaugeBatchBuilt
    /\ pc = "built"
    /\ ~ApproveFirst
    /\ AllowanceBelowAmount
    /\ Len(tx_calls) = 1
    /\ tx_calls[1].label = "deposit_to_gauge"

\* the labels of the batch, in order
Labels(calls) == [i \in DOMAIN calls |-> calls[i].label]

\* the build of the gauge batch was attempted and raised ConfigError
\* without calls
GaugeBuildFailed ==
    /\ pc \in {"error", "done"}
    /\ error = "ConfigError"
    /\ tx_calls = << >>
    /\ strategy_details = NoDetails

\* C9 as stated: without an lp_amount_wei override the deposit amount is
\* floor(amount_usd / lp_token_price_usd * 10^decimals), decimals 18 by
\* default, and with allowance 0 and default settings the batch is
\* [approve, deposit]; an override is the amount whatever the price; without
\* an override a missing or non-positive price fails the build with
\* ConfigError and no calls
C9_Original ==
    /\ (GaugeBatchBuilt /\ cfg.lp_amount_wei = Absent) =>
           /\ strategy_details.lp_amount_wei
                  = ExactFloorAmount(trade_plan.amount_usd,
                                     trade_plan.lp_token_price_usd[1],
                                     Get(cfg.lp_token_decimals, 18))
           /\ (strategy_details.allowance_wei = BigZero
               /\ cfg.approve_first = Absent /\ cfg.approve_max = Absent)
                  => Labels(tx_calls) = << "approve_lp_token", "deposit_to_gauge" >>
    /\ (GaugeBatchBuilt /\ cfg.lp_amount_wei # Absent) =>
           strategy_details.lp_amount_wei = BigFromNat(cfg.lp_amount_wei[1])
    /\ (/\ cfg.strategy = "gauge_stake_lp"
        /\ cfg.lp_amount_wei = Absent
        /\ preflight_calls # << >>
        /\ \/ trade_plan.lp_token_price_usd = Absent
           \/ trade_plan.lp_token_price_usd[1] <= 0)
           => GaugeBuildFailed

\* C10: with strategy custom_tx the builder returns exactly the one call
\* made of the configured to, data, value_wei and label, no approve and no
\* deposit call, and building issues no RPC request
C10_CustomTxIsSoleCall ==
    [][(pc = "synced" /\ cfg.strategy = "custom_tx") =>
           /\ rpc_log' = rpc_log
           /\ pc' = "built" =>
                  /\ Len(tx_calls') = 1
                  /\ tx_calls'[1].to = Get(cfg.custom_to, "")
                  /\ tx_calls'[1].data = RawCallData(Get(cfg.custom_data, "0x"))
                  /\ tx_calls'[1].value_wei = Get(cfg.custom_value_wei, 0)
                  /\ tx_calls'[1].label
                         \in {Get(cfg.custom_label, "custom_transaction"),
                              "custom_transaction"}
                  /\ tx_calls'[1].label
                         \notin {"approve_lp_token", "deposit_to_gauge", ""}
                  /\ strategy_details'.strategy = "custom_tx"]_vars

C10_Witness ==
    /\ pc = "built"
    /\ cfg.strategy = "custom_tx"
    /\ Len(tx_calls) = 1
    /\ tx_calls[1] = [label |-> "claim", to |-> "0xcustom", value_wei |-> 5,
                      data |-> RawCallData("0xa9059cbb")]
    /\ RequestsOf("eth_call") = {}

(***************************************************************************)
(* Properties of the gas and nonce resolver                                *)
(***************************************************************************)
\* ceil(n * num / den) in exact arithmetic
ExactCeil(n, num, den) == (n * num + den - 1) \div den

\* the gas price multiplier as the decimal the operator wrote, 1.1 by default
GasPriceMultiplier == Get(cfg.gas_price_multiplier, << 11, 10 >>)

\* the gas limit multiplier as the decimal the operator wrote, 1.2 by default
GasLimitMultiplier == Get(cfg.gas_limit_multiplier, << 12, 10 >>)

\* _resolve_gas_price_wei returned a price in this run
GasPriceResolved == gas_price_wei # BigZero

\* C11 as stated: with evm_execution.tx.gas_price_wei configured no
\* eth_gasPrice request is made and the configured value is the gasPrice of
\* every prepared transaction; otherwise eth_gasPrice is queried exactly once
\* per preflight and the price is ceil(result * gas_price_multiplier), at
\* least 1
C11_Original ==
    /\ cfg.gas_price_wei # Absent =>
           /\ RequestsOf("eth_gasPrice") = {}
           /\ GasPriceResolved => gas_price_wei = BigFromNat(cfg.gas_price_wei[1])
    /\ (cfg.gas_price_wei = Absent /\ GasPriceResolved) =>
           /\ Cardinality(RequestsOf("eth_gasPrice")) = Len(preflight_calls)
           /\ Len(preflight_calls) = 1
           /\ gas_price_wei =
                  BigMax(<< 1 >>,
                         BigFromNat(ExactCeil(base_gas_price, GasPriceMultiplier[1],
                                              GasPriceMultiplier[2])))
    /\ \A i \in DOMAIN preflight.transactions :
           preflight.transactions[i].unsigned_tx.gasPrice = gas_price_wei

\* max(21000, ceil(gas * gas_limit_multiplier)) in exact arithmetic
ExactGasLimit(gas) ==
    IF ExactCeil(gas, GasLimitMultiplier[1], GasLimitMultiplier[2]) < MIN_GAS_LIMIT
    THEN MIN_GAS_LIMIT
    ELSE ExactCeil(gas, GasLimitMultiplier[1], GasLimitMultiplier[2])

\* an eth_estimateGas request of the run failed
EstimateFailed == \E i \in RequestsOf("eth_estimateGas") : ~rpc_log[i].ok

\* C12 as stated: in non-strict mode a failed eth_estimateGas does not end
\* the preparation, the call gets the gas limit
\* max(21000, ceil(fallback_gas_limit * gas_limit_multiplier)) and
\* estimation_errors gets an entry for it; every prepared transaction, in any
\* mode, has gas_limit = max(21000, ceil(estimated_gas * gas_limit_multiplier)),
\* which is at least 21000
C12_Original ==
    /\ (preflight_calls = << FALSE >> /\ EstimateFailed) =>
           /\ PreflightDone
           /\ Len(preflight.transactions) = Len(tx_calls)
           /\ \A i \in DOMAIN preflight.transactions :
                  preflight.transactions[i].estimate_error =>
                      /\ preflight.transactions[i].gas_limit
                             = ExactGasLimit(Get(cfg.fallback_gas_limit,
                                                 DEFAULT_FALLBACK_GAS_LIMIT))
                      /\ \E j \in DOMAIN preflight.estimation_errors :
                             preflight.estimation_errors[j]
                                 = preflight.transactions[i].label
    /\ \A i \in DOMAIN preflight.transactions :
           /\ preflight.transactions[i].gas_limit
                  = ExactGasLimit(preflight.transactions[i].estimated_gas)
           /\ preflight.transactions[i].gas_limit >= MIN_GAS_LIMIT

(***************************************************************************)
(* Properties of the capability probe and of RPC discovery                 *)
(***************************************************************************)
IsProbeRequest(request) == request.rpc = "probe"

\* the probe requests of the run, in the order they were sent
ProbeLog == SelectSeq(rpc_log, IsProbeRequest)

\* the run has sent its probes
Probed == probe_responses # << >>

\* the response to probe i is a well-formed JSON-RPC result: an object, past
\* the gateway envelope, without error and with a result
WellFormedResult(i) ==
    /\ ~probe_responses[i].raised
    /\ ~_unwrap_gateway_response(probe_responses[i].payload).raised
    /\ LET unwrapped == _unwrap_gateway_response(probe_responses[i].payload).value
       IN  /\ unwrapped.kind = "object"
           /\ unwrapped.error \in {Absent, Some("null"), Some("empty")}
           /\ unwrapped.result # Absent

\* the JSON-RPC calls of the run: the requests made through _rpc_call
IsRpcCall(request) == request.rpc \notin {"publishers", "probe", "getGauges"}

\* the probes are requested in list order, one request each
ProbesInListOrder ==
    /\ Len(ProbeLog) = Len(probe_responses)
    /\ Len(ProbeLog) <= Len(ProbesOf(cfg))
    /\ \A i \in DOMAIN ProbeLog :
           /\ ProbeLog[i].method = ProbesOf(cfg)[i].method
           /\ ProbeLog[i].path = ProbesOf(cfg)[i].path

\* every JSON-RPC call of the run was sent with the method and path of probe
EveryRpcCallUses(probe) ==
    \A i \in DOMAIN rpc_log :
        IsRpcCall(rpc_log[i]) =>
            rpc_log[i].method = probe.method /\ rpc_log[i].path = probe.path

\* C13 as stated: the probes are tried in list order and the loop stops at
\* the first probe whose response is a well-formed JSON-RPC result: the
\* capability has status ok and that probe's method and path as rpc_target,
\* no later probe is requested and every later JSON-RPC call uses that target
C13_Original ==
    Probed =>
        /\ ProbesInListOrder
        /\ \A i \in DOMAIN probe_responses :
               WellFormedResult(i) =>
                   /\ i = Len(probe_responses)
                   /\ rpc_capability.status = "ok"
                   /\ rpc_capability.rpc_target = Some(ProbesOf(cfg)[i])
                   /\ EveryRpcCallUses(ProbesOf(cfg)[i])

\* C13 as amended: the probes are tried in list order and the loop stops at
\* the first POST probe whose response is a well-formed JSON-RPC result: the
\* capability has status ok and that probe's method and path as rpc_target,
\* no later probe is requested and every later JSON-RPC call uses that
\* target; the capability has status ok in no other case
C13_StopsAtFirstPostResult ==
    Probed =>
        /\ ProbesInListOrder
        /\ \A i \in DOMAIN probe_responses :
               (WellFormedResult(i) /\ ProbesOf(cfg)[i].method = "POST") =>
                   /\ i = Len(probe_responses)
                   /\ rpc_capability.status = "ok"
                   /\ rpc_capability.rpc_target = Some(ProbesOf(cfg)[i])
                   /\ EveryRpcCallUses(ProbesOf(cfg)[i])
        /\ rpc_capability.status = "ok" =>
               /\ WellFormedResult(Len(probe_responses))
               /\ ProbesOf(cfg)[Len(probe_responses)].method = "POST"

\* the second of four probes answered with a result after the first failed,
\* and the JSON-RPC calls of the preflight went to its path
C13_Witness ==
    /\ Len(ProbesOf(cfg)) = 4
    /\ Len(probe_responses) = 2
    /\ ~WellFormedResult(1)
    /\ WellFormedResult(2)
    /\ rpc_capability.status = "ok"
    /\ rpc_capability.rpc_target = Some([method |-> "POST", path |-> "/ext/bc/C/rpc"])
    /\ \E i \in RequestsOf("eth_chainId") : rpc_log[i].path = "/ext/bc/C/rpc"
    /\ Len(ProbeLog) = 2

\* the probes were sent and none made check_rpc_capability return ok
NoProbeOk == Probed /\ rpc_capability.status # "ok"

\* what the message of the failed check lists: the text of the ConfigError
\* when the capability is required, the error of the warning otherwise
ProbeFailureMessage ==
    IF cfg.rpc_required THEN error_detail ELSE rpc_capability.error

\* no stage after the capability check has run
NoLaterStage ==
    /\ pc \in {"error", "done"}
    /\ rpc_capability = NoCapability
    /\ trade_plan = NoPlan
    /\ preflight_calls = << >>
    /\ RequestsOf("getGauges") = {}
    /\ \A i \in DOMAIN rpc_log : ~IsRpcCall(rpc_log[i])

\* C14 as stated: when no probe succeeds, a required capability (the
\* default) ends the run with ConfigError before any later stage, and a
\* capability that is not required yields status warning and the run goes
\* on; in both cases the message carries one error entry for every probe
\* attempted, in probe order, GET probes included
C14_Original ==
    NoProbeOk =>
        /\ cfg.rpc_required => (error = "ConfigError" /\ NoLaterStage)
        /\ ~cfg.rpc_required =>
               /\ rpc_capability.status = "warning"
               /\ error # "" => RequestsOf("getGauges") # {}
        /\ ProbeFailureMessage.errors = ProbesOf(cfg)

\* probe i failed: its request raised, the envelope of its response had a
\* status outside [200, 300) or, for a POST probe, the response was not a
\* well-formed JSON-RPC result
ProbeFailed(i) ==
    \/ probe_responses[i].raised
    \/ _unwrap_gateway_response(probe_responses[i].payload).raised
    \/ ProbesOf(cfg)[i].method = "POST" /\ ~WellFormedResult(i)

FailedProbes == {i \in DOMAIN probe_responses : ProbeFailed(i)}

\* the k-th failed probe in probe order
KthFailed(k) ==
    CHOOSE i \in FailedProbes : Cardinality({j \in FailedProbes : j <= i}) = k

\* C14 as amended: when no probe succeeds, a required capability (the
\* default) ends the run with ConfigError before any later stage, and a
\* capability that is not required yields status warning and the run goes
\* on; in both cases the message names every probe attempted, in probe
\* order, and carries one error entry, in probe order, for every probe that
\* failed; a GET probe such as /health that is answered without error has
\* no entry
C14_ErrorsOfFailedProbes ==
    NoProbeOk =>
        /\ cfg.rpc_required => (error = "ConfigError" /\ NoLaterStage)
        /\ ~cfg.rpc_required =>
               /\ rpc_capability.status = "warning"
               /\ error # "" => RequestsOf("getGauges") # {}
        /\ Len(probe_responses) = Len(ProbesOf(cfg))
        /\ ProbeFailureMessage.probes = ProbesOf(cfg)
        /\ Len(ProbeFailureMessage.errors) = Cardinality(FailedProbes)
        /\ \A k \in DOMAIN ProbeFailureMessage.errors :
               ProbeFailureMessage.errors[k] = ProbesOf(cfg)[KthFailed(k)]

\* a run whose capability is not required went on to its report after the
\* health check was answered and the JSON-RPC probe failed
C14_Witness ==
    /\ ~cfg.rpc_required
    /\ Len(ProbesOf(cfg)) = 2
    /\ NoProbeOk
    /\ ~ProbeFailed(1)
    /\ ProbeFailed(2)
    /\ rpc_capability.status = "warning"
    /\ rpc_capability.error.errors = << [method |-> "POST", path |-> "/rpc"] >>
    /\ pc = "dry_run_reported"

\* the catalog was listed and the listing succeeded
CatalogListed == \E i \in RequestsOf("publishers") : rpc_log[i].ok

\* the chains for which the catalog holds a candidate publisher
ChainsWithCandidate ==
    {chain \in DOMAIN CHAIN_DISCOVERY_TERMS :
        \E i \in DOMAIN catalog :
            IsCandidate(catalog[i], CHAIN_DISCOVERY_TERMS[chain])}

\* the entries of a sequence
Entries(seq) == {seq[i] : i \in DOMAIN seq}

\* C15: the override map is consulted first: with an entry for the chain
\* the publisher is that slug, its source is config.rpc_publishers and the
\* catalog is not requested; the catalog is listed only without an override;
\* when it holds no candidate for the chain the run ends with a ConfigError
\* that lists every auto-discovered chain:slug mapping, or "none"
C15_OverrideBeforeCatalog ==
    /\ cfg.rpc_publishers # Absent =>
           /\ RequestsOf("publishers") = {}
           /\ rpc_capability # NoCapability =>
                  /\ rpc_capability.publisher = cfg.rpc_publishers[1]
                  /\ rpc_capability.publisher_source = "config.rpc_publishers"
    /\ RequestsOf("publishers") # {} =>
           /\ cfg.rpc_publishers = Absent
           /\ Cardinality(RequestsOf("publishers")) = 1
    /\ (cfg.rpc_publishers = Absent /\ rpc_capability # NoCapability) =>
           /\ CatalogListed
           /\ inputs.chain \in ChainsWithCandidate
           /\ rpc_capability.publisher_source = "catalog:/publishers"
    /\ (CatalogListed /\ inputs.chain \notin ChainsWithCandidate) =>
           /\ error = "ConfigError"
           /\ ~Probed
           /\ rpc_capability = NoCapability
           /\ IF ChainsWithCandidate = {}
              THEN error_detail.available = NoMappings
              ELSE /\ Len(error_detail.available) = Cardinality(ChainsWithCandidate)
                   /\ Entries(error_detail.available) =
                          {[chain |-> chain,
                            slug  |-> _discovered_rpc_publishers(catalog)[chain]] :
                              chain \in ChainsWithCandidate}

\* a dry run reported with the publisher of the override map, the catalog
\* never requested
C15_Witness ==
    /\ cfg.rpc_publishers = Some(<< "my", "-", "node" >>)
    /\ rpc_capability.status = "ok"
    /\ rpc_capability.publisher = << "my", "-", "node" >>
    /\ rpc_capability.publisher_source = "config.rpc_publishers"
    /\ RequestsOf("publishers") = {}
    /\ Len(ProbeLog) > 0
    /\ pc = "dry_run_reported"

\* a helper call has returned
Returned(fn) == pc = "returned" /\ call.fn = fn

\* the orders a list can be given in
Reorderings(items) ==
    {[i \in DOMAIN items |-> items[p[i]]] :
        p \in {q \in [DOMAIN items -> DOMAIN items] :
                  \A i, j \in DOMAIN items : i # j => q[i] # q[j]}}

\* the publishers of a catalog that are active, RPC-like and match a chain
CandidatesOf(publishers, chain) ==
    {publisher \in Entries(publishers) :
        IsCandidate(publisher, CHAIN_DISCOVERY_TERMS[chain])}

\* C16: _discovered_rpc_publishers returns the same slug for a chain in
\* whatever order the catalog lists its publishers: the slug of the
\* candidate of the highest score among the active RPC-like publishers that
\* match the chain, the lexicographically smallest slug among equal scores
C16_DiscoveryIgnoresOrder ==
    Returned("_discovered_rpc_publishers") =>
        \A chain \in DOMAIN CHAIN_DISCOVERY_TERMS :
            /\ \A reordered \in Reorderings(call.arg) :
                   _discovered_rpc_publishers(reordered)[chain] = returned[chain]
            /\ IF CandidatesOf(call.arg, chain) = {}
               THEN returned[chain] = << >>
               ELSE \E best \in CandidatesOf(call.arg, chain) :
                      /\ returned[chain] = LowerText(best.slug)
                      /\ \A other \in CandidatesOf(call.arg, chain) :
                             LET terms == CHAIN_DISCOVERY_TERMS[chain]
                             IN  /\ Score(other, terms) <= Score(best, terms)
                                 /\ Score(other, terms) = Score(best, terms) =>
                                        ~StrLess(LowerText(other.slug),
                                                 LowerText(best.slug))

\* two candidates of equal score listed with the greater slug first, and a
\* publisher of another chain
C16_Witness ==
    /\ Returned("_discovered_rpc_publishers")
    /\ call.arg = << EthereumNode, AlchemyEthereum, PolygonNode >>
    /\ Score(EthereumNode, {"ethereum"}) = Score(AlchemyEthereum, {"ethereum"})
    /\ returned["ethereum"] = << "alchemy", "-", "ethereum" >>
    /\ returned["polygon"] = << "polygon", "-", "node" >>
    /\ returned["base"] = << >>

(***************************************************************************)
(* Properties of the gateway envelope                                      *)
(***************************************************************************)
\* the payload is an object with an integer status (an int of Python: a
\* JSON integer or boolean) and a body key
IsEnvelope(payload) ==
    /\ payload.kind = "object"
    /\ payload.status # Absent
    /\ payload.status[1].type \in {"int", "bool"}
    /\ payload.body # Absent

StatusInRange(payload) ==
    200 <= payload.status[1].value /\ payload.status[1].value < 300

FloatGeq(a, b) == ~a.nan /\ ~b.nan /\ a.v >= b.v

\* the data object a fetch_top_gauges call was answered with
ListedData == call.arg.response.payload.body[1].data[1]

\* the call was answered with a data object inside an accepted envelope
ListingAnswered ==
    /\ Returned("fetch_top_gauges")
    /\ ~call.arg.response.raised
    /\ IsEnvelope(call.arg.response.payload)
    /\ StatusInRange(call.arg.response.payload)
    /\ call.arg.response.payload.body[1].data # Absent

\* the listed gauges that pass the filters: source chain accepted by the
\* alias table for the chain, well-formed 20-byte hex address
ListedMatching ==
    {entry \in Entries(ListedData) :
        /\ LowerStrip(entry.value.blockchainId) \in CURVE_CHAIN_ALIASES[inputs.chain]
        /\ entry.value.gauge \in HexAddresses}

\* the candidate reward values of a listed gauge that parse
RewardValues(gauge_value) ==
    Entries(Candidates(gauge_value.gaugeFutureCrvApy.items, 1))
    \cup Entries(Candidates(gauge_value.gaugeCrvApy.items, 1))

\* reward is the maximum of the candidate reward values, 0 when none parse
IsMaxReward(reward, gauge_value) ==
    IF RewardValues(gauge_value) = {} THEN reward = Float(0)
    ELSE /\ reward \in RewardValues(gauge_value)
         /\ \A other \in RewardValues(gauge_value) : FloatGeq(reward, other)

\* C18 as stated: fetch_top_gauges makes exactly one listing request and
\* returns at most limit gauges, each with a well-formed address and a
\* source chain the alias table accepts, in order of non-increasing
\* reward_apy (the maximum of the candidate reward values, 0 when none
\* parse); every returned gauge has a reward_apy >= that of every matching
\* gauge not returned; when no gauge passes the filters it raises ConfigError
C18_Original ==
    /\ Returned("fetch_top_gauges") => Cardinality(RequestsOf("getGauges")) = 1
    /\ (ListingAnswered /\ ListedMatching = {}) => returned.error = "ConfigError"
    /\ (ListingAnswered /\ ListedMatching # {}) =>
           /\ returned.error = ""
           /\ Len(returned.gauges) >= 1
           /\ Len(returned.gauges) <= call.arg.limit
           /\ \A i \in DOMAIN returned.gauges :
                  /\ returned.gauges[i].address \in HexAddresses
                  /\ returned.gauges[i].source_chain
                         \in CURVE_CHAIN_ALIASES[inputs.chain]
                  /\ \E entry \in ListedMatching :
                         /\ entry.name = returned.gauges[i].name
                         /\ IsMaxReward(returned.gauges[i].reward_apy, entry.value)
                  /\ \A j \in DOMAIN returned.gauges :
                         i < j => FloatGeq(returned.gauges[i].reward_apy,
                                           returned.gauges[j].reward_apy)
                  /\ \A entry \in ListedMatching :
                         (\A j \in DOMAIN returned.gauges :
                              returned.gauges[j].name # entry.name)
                             => \E reward \in {_extract_reward_apy(entry.value)} :
                                    FloatGeq(returned.gauges[i].reward_apy, reward)

(***************************************************************************)
(* Properties of the submission loops                                      *)
(***************************************************************************)
\* execute_live_trade is about to run with the ledger signer
LedgerExecution ==
    /\ pc = "preflight_done"
    /\ LiveGate
    /\ signer.mode = "ledger"

\* the requests and the payloads a step added
NewRequests == SubSeq(rpc_log', Len(rpc_log) + 1, Len(rpc_log'))

NewSent == SubSeq(sent', Len(sent) + 1, Len(sent'))

\* two spellings of the same hex bytes: equal up to case and outer blanks
SameHex(a, b) == StripLower(a) = StripLower(b)

\* a step added one eth_sendRawTransaction request per payload sent, the
\* payloads being the first supplied raw transactions in the supplied order
SubmitsInSuppliedOrder ==
    /\ Len(NewRequests) = Len(NewSent)
    /\ Len(NewSent) <= Len(cfg.ledger_signed_raw)
    /\ \A i \in DOMAIN NewRequests : NewRequests[i].rpc = "eth_sendRawTransaction"
    /\ \A i \in DOMAIN NewSent :
           /\ NewSent[i].index = i
           /\ SameHex(NewSent[i].raw, cfg.ledger_signed_raw[i])

\* C19: in ledger signer mode execute_live_trade fails with ConfigError
\* before any eth_sendRawTransaction when the number of
\* signed_raw_transactions differs from the number of prepared
\* transactions; when the counts match the raw transactions are submitted
\* in the supplied order, one request each, all of them when the execution
\* returns
C19_LedgerCountThenOrder ==
    [][(LedgerExecution /\ pc' # pc) =>
          IF Len(cfg.ledger_signed_raw) # Len(preflight.transactions)
          THEN /\ pc' = "error"
               /\ error' = "ConfigError"
               /\ rpc_log' = rpc_log
               /\ sent' = sent
          ELSE /\ SubmitsInSuppliedOrder
               /\ pc' = "live_executed" =>
                      Len(NewSent) = Len(cfg.ledger_signed_raw)]_vars

\* the ledger flow submitted two raw transactions, spelled in the
\* configuration with capitals and blanks, in the order supplied
C19_Witness ==
    /\ pc = "live_executed"
    /\ signer.mode = "ledger"
    /\ cfg.ledger_signed_raw = << "0xSIGNED0", " 0xsigned1 " >>
    /\ Len(preflight.transactions) = 2
    /\ Len(sent) = 2
    /\ sent[1].raw = "0xsigned0"
    /\ sent[2].raw = "0xsigned1"
    /\ Cardinality(RequestsOf("eth_sendRawTransaction")) = 2

\* the eth_sendRawTransaction request at position i of the log failed
SendFailedAt(i) ==
    /\ rpc_log[i].rpc = "eth_sendRawTransaction"
    /\ ~rpc_log[i].ok

\* C20: when the eth_sendRawTransaction of the k-th transaction of a batch
\* fails, it is the last request of the run (no retry, no submission of a
\* later transaction), exactly k transactions were submitted and, with the
\* local signer, exactly k were signed, and the run is in the error state,
\* reports status error and exits with code 1, never with a success result
C20_FailedSubmissionAbortsBatch ==
    \A i \in DOMAIN rpc_log :
        SendFailedAt(i) =>
            /\ i = Len(rpc_log)
            /\ Cardinality(RequestsOf("eth_sendRawTransaction")) = Len(sent)
            /\ \A k \in DOMAIN sent : sent[k].index = k
            /\ signer.mode = "local" => Len(signed) = Len(sent)
            /\ signer.mode = "ledger" => signed = << >>
            /\ pc \in {"error", "done"}
            /\ error = "PublisherError"
            /\ result = NoResult
            /\ pc = "done" =>
                   /\ exit_code = 1
                   /\ Len(stdout) = 1
                   /\ stdout[1].status = "error"

\* the first of two transactions was signed and its submission failed: the
\* second was neither signed nor submitted and the run exited with code 1
C20_Witness ==
    /\ pc = "done"
    /\ signer.mode = "local"
    /\ Len(preflight.transactions) = 2
    /\ Len(sent) = 1
    /\ Len(signed) = 1
    /\ SendFailedAt(Len(rpc_log))
    /\ exit_code = 1

(***************************************************************************)
(* Properties of main and of the stages of run_once                        *)
(***************************************************************************)
\* C21 as stated: every invocation of main ends by printing exactly one
\* JSON object and returning 0 (status ok) or 1 (status error with the
\* message); every failure of a stage takes the exit-code-1 path with that
\* object and none escapes as an unhandled exception
C21_Original ==
    /\ pc # "done" => stdout = << >>
    /\ pc = "done" =>
           /\ Len(stdout) = 1
           /\ error \in Handled \cup {""}
           /\ IF error = ""
              THEN exit_code = 0 /\ stdout[1].status = "ok"
              ELSE /\ exit_code = 1
                   /\ stdout[1].status = "error"
                   /\ stdout[1].keys = {"status", "error"}
                   /\ stdout[1].error = error

\* the stage of the orchestrator a position of run_once belongs to: position
\* sync and the steps of preflight_liquidity run while the run is PLANNED
Stage(p) ==
    CASE p = "init" -> "INIT"
      [] p = "resolved_inputs" -> "RESOLVED_INPUTS"
      [] p = "rpc_ready" -> "RPC_READY"
      [] p \in {"planned", "synced", "built", "priced"} -> "PLANNED"
      [] p = "preflight_done" -> "PREFLIGHT_DONE"
      [] p = "dry_run_reported" -> "DRY_RUN_REPORTED"
      [] p = "live_executed" -> "LIVE_EXECUTED"
      [] p = "error" -> "ERROR"
      [] p = "done" -> "DONE"

\* the stages that may follow a stage that returned successfully
StageAfter(stage) ==
    CASE stage = "INIT" -> {"RESOLVED_INPUTS"}
      [] stage = "RESOLVED_INPUTS" -> {"RPC_READY"}
      [] stage = "RPC_READY" -> {"PLANNED"}
      [] stage = "PLANNED" -> {"PREFLIGHT_DONE"}
      [] stage = "PREFLIGHT_DONE" -> {"DRY_RUN_REPORTED", "LIVE_EXECUTED"}
      [] stage = "DRY_RUN_REPORTED" -> {"DONE"}
      [] stage = "LIVE_EXECUTED" -> {"DONE"}
      [] stage = "ERROR" -> {"DONE"}
      [] stage = "DONE" -> {}

Working == {"INIT", "RESOLVED_INPUTS", "RPC_READY", "PLANNED", "PREFLIGHT_DONE"}

\* what the stages produce: requests, signatures, submissions, results
Effects ==
    << rpc_log, signed, sent, inputs, signer, rpc_capability, trade_plan,
       position_sync, preflight, result >>

\* a step stays in its stage, moves to the next one or fails out of a
\* working stage, and changes nothing once the run is in ERROR or DONE
StepInOrder ==
    /\ (Stage(pc') # Stage(pc)) =>
           \/ Stage(pc') \in StageAfter(Stage(pc))
           \/ (Stage(pc') = "ERROR" /\ Stage(pc) \in Working)
    /\ (Stage(pc) \in {"ERROR", "DONE"}) => UNCHANGED Effects

\* C22: a run passes through INIT, RESOLVED_INPUTS, RPC_READY, PLANNED,
\* PREFLIGHT_DONE, then one of DRY_RUN_REPORTED or LIVE_EXECUTED, then DONE:
\* every step stays in its stage, moves to the next stage of this order, or
\* moves from a working stage to ERROR; a run with an error is in ERROR or
\* has exited, a run without one is not, and after the move to ERROR no
\* stage executes (nothing is requested, signed, submitted or produced)
C22_StagesInFixedOrder ==
    /\ [](error # "" <=> (Stage(pc) = "ERROR" \/ (pc = "done" /\ exit_code = 1)))
    /\ [][StepInOrder]_vars

\* a confirmed live run went through every stage and exited with a result
C22_Witness ==
    /\ pc = "done"
    /\ error = ""
    /\ result.mode = "live"
    /\ inputs # NoInputs
    /\ rpc_capability.status = "ok"
    /\ trade_plan # NoPlan
    /\ preflight.transactions # << >>
    /\ sent # << >>

\* the network call at position i of the log failed
CallFailed(i) == ~rpc_log[i].ok

\* the failed call is the last request of the run, which is in ERROR or has
\* exited with the error
EndsRun(i) ==
    /\ i = Len(rpc_log)
    /\ pc \in {"error", "done"}
    /\ error # ""

FirstFailedRead ==
    LET failed == {i \in RequestsOf("eth_getBalance") \cup RequestsOf("eth_call") :
                      CallFailed(i)}
    IN  IF failed = {} THEN 0
        ELSE CHOOSE i \in failed : \A j \in failed : i <= j

\* the three places where the code catches the failure of a network call
\* and goes on: a capability probe, a read of position sync outside a live
\* run, an eth_estimateGas when estimation is not strict
Tolerated(i) ==
    \/ rpc_log[i].rpc = "probe"
    \/ /\ i = FirstFailedRead
       /\ position_sync = "warning"
       /\ dry_run \/ ~inputs.live_mode
    \/ /\ rpc_log[i].rpc = "eth_estimateGas"
       /\ ~(inputs.live_mode /\ ~dry_run /\ args.yes_live)

\* how many requests of one kind the run has issued
Count(rpc) == Cardinality(RequestsOf(rpc))

\* every operation of the run issued at most one request
OneRequestEach ==
    /\ Count("publishers") <= 1
    /\ Count("probe") <= Len(ProbesOf(cfg))
    /\ Count("getGauges") <= 1
    /\ Count("eth_getBalance") <= 1
    /\ Count("eth_call") <= 3
    /\ Count("eth_gasPrice") <= 1
    /\ Count("eth_chainId") <= 1
    /\ Count("eth_getTransactionCount") <= 1
    /\ Count("eth_estimateGas") <= Len(tx_calls)
    /\ Count("eth_sendRawTransaction") <= Len(preflight.transactions)

KeyOf(r) == << runs[r].address, runs[r].chain >>

OtherRun(r) == CHOOSE o \in RunIds : o # r

\* a step of run r: what it reads is the pending count of its own account,
\* it changes nothing the other run holds, and the only count that may
\* change is the one of its own account
StepOf(r) ==
    (runs'[r] # runs[r]) =>
        /\ runs'[OtherRun(r)] = runs[OtherRun(r)]
        /\ \A k \in DOMAIN pending : k # KeyOf(r) => pending'[k] = pending[k]
        /\ (runs[r].at = "start") =>
               /\ pending' = pending
               /\ runs'[r].nonce_start = pending[KeyOf(r)]
               /\ runs'[r].nonces =
                      [i \in 1..runs[r].n |-> pending[KeyOf(r)] + i - 1]

\* C24: no lock and no state shared between runs: a run reads the pending
\* nonce of its own wallet on its own chain whatever the other run is doing
\* and numbers its batch from it, a step of one run changes nothing the
\* other run holds, and it changes the pending count of its own account
\* only, so runs on different wallets or chains never interfere; two runs
\* on the same wallet and chain can prepare and submit the same nonces
C24_RunsShareOnlyTheNode == [][\A r \in RunIds : StepOf(r)]_vars

\* two confirmed live runs on the same wallet and chain read the same
\* pending nonce, prepared batches with the same nonces and both submitted
C24_Witness ==
    /\ KeyOf(1) = KeyOf(2)
    /\ runs[1].live /\ runs[2].live
    /\ runs[1].at = "done" /\ runs[2].at = "done"
    /\ runs[1].nonce_start = runs[2].nonce_start
    /\ runs[1].nonces = runs[2].nonces
    /\ runs[1].submitted = 2 /\ runs[2].submitted = 2

(***************************************************************************)
(* Properties of the Spectra PT planner                                    *)
(***************************************************************************)
\* the flags of the configuration a planner call was made with
SpectraDryRun == PyBool(Get(call.arg.dry_run, "true"))

SpectraLiveMode == PyBool(Get(call.arg.live_mode, "false"))

SpectraConfirmed == PyBool(Get(call.arg.confirm_live_handoff, "false"))

\* the planner returned a result
SpectraReturned == Returned("spectra.run_once") /\ ~returned.raised

\* handoff is enabled only for a confirmed live request
HandoffOnlyWhenConfirmedLive ==
    (SpectraReturned /\ returned.has_handoff /\ returned.enabled) =>
        SpectraLiveMode /\ ~SpectraDryRun /\ SpectraConfirmed

\* the blocked result: ok, dry_run true, the handoff named as blocked and no
\* execution_handoff section
HandoffBlocked ==
    /\ returned.status = "ok"
    /\ returned.has_dry_run /\ returned.dry_run
    /\ returned.blocked_action = "execution_handoff"
    /\ ~returned.has_handoff

\* the dry_run flag, when reported, is the negation of enabled
DryRunNegatesEnabled ==
    (SpectraReturned /\ returned.has_dry_run) =>
        (returned.dry_run <=> ~(returned.has_handoff /\ returned.enabled))

\* C25 as stated: handoff is enabled only if live_mode is true, dry_run is
\* false and confirm_live_handoff is true; whenever live mode is requested
\* without confirmation the result is the blocked one; dry_run is the
\* negation of execution_handoff.enabled
C25_Original ==
    /\ HandoffOnlyWhenConfirmedLive
    /\ (SpectraReturned /\ SpectraLiveMode /\ ~SpectraDryRun /\ ~SpectraConfirmed)
           => HandoffBlocked
    /\ DryRunNegatesEnabled

\* the request passes the guard of the policies: the capital within the
\* notional cap and the price impact within the slippage cap
WithinPolicies ==
    /\ call.arg.capital_usd <= Get(call.arg.max_notional_usd, 1000)
    /\ call.arg.max_price_impact_pct * 100 <= Get(call.arg.max_slippage_bps, 200)

\* C25, amended: as stated, the blocked result being returned when live
\* mode is requested without confirmation and no policy is violated
C25_HandoffNeedsConfirmedLive ==
    /\ HandoffOnlyWhenConfirmedLive
    /\ (SpectraReturned /\ SpectraLiveMode /\ ~SpectraDryRun /\ ~SpectraConfirmed
          /\ WithinPolicies) => HandoffBlocked
    /\ DryRunNegatesEnabled

\* a live request without confirmation, within the policies, was blocked
C25_Witness ==
    /\ SpectraReturned
    /\ call.arg.live_mode = Some("true")
    /\ call.arg.dry_run = Some("false")
    /\ call.arg.confirm_live_handoff = Absent
    /\ WithinPolicies
    /\ returned.blocked_action = "execution_handoff"

(***************************************************************************)
(* Properties of the preparation of a batch                                *)
(***************************************************************************)
\* a request of the method was issued before request i
RequestedBefore(method, i) == \E j \in RequestsOf(method) : j < i

\* C26: within the preparation of a batch eth_chainId and
\* eth_getTransactionCount are requested once each, before the first
\* eth_estimateGas, and the pending nonce is not read again between the
\* calls of the batch; every prepared transaction carries the chainId that
\* was read and the gas price that was resolved
C26_ChainIdAndNonceReadOnce ==
    /\ Count("eth_chainId") <= 1
    /\ Count("eth_getTransactionCount") <= 1
    /\ \A i \in RequestsOf("eth_getTransactionCount") :
           RequestedBefore("eth_chainId", i)
    /\ \A i \in RequestsOf("eth_estimateGas") :
           /\ RequestedBefore("eth_chainId", i)
           /\ RequestedBefore("eth_getTransactionCount", i)
    /\ PreflightDone =>
           /\ Count("eth_chainId") = 1
           /\ Count("eth_getTransactionCount") = 1
           /\ Count("eth_estimateGas") = Len(preflight.transactions)
           /\ \A i \in DOMAIN preflight.transactions :
                  /\ preflight.transactions[i].unsigned_tx.chainId = preflight.chain_id
                  /\ preflight.transactions[i].unsigned_tx.gasPrice = gas_price_wei
                  /\ preflight.transactions[i].unsigned_tx.gasPrice
                         = preflight.transactions[1].unsigned_tx.gasPrice

\* a batch of two transactions was prepared after two estimates
C26_Witness ==
    /\ PreflightDone
    /\ Len(preflight.transactions) = 2
    /\ Count("eth_estimateGas") = 2
    /\ Count("eth_chainId") = 1
    /\ Count("eth_getTransactionCount") = 1
    /\ preflight.transactions[2].unsigned_tx.chainId
           = preflight.transactions[1].unsigned_tx.chainId

(***************************************************************************)
(* Properties of the local submission loop                                 *)
(***************************************************************************)
\* the eth_sendRawTransaction requests of the run, in the order issued
IsSend(request) == request.rpc = "eth_sendRawTransaction"

SendLog == SelectSeq(rpc_log, IsSend)

\* C27: with the local signer every transaction signed is the next prepared
\* one, in preflight (increasing nonce) order, it is submitted with one
\* eth_sendRawTransaction, and it is signed only after every earlier
\* submission succeeded; a live execution that returned has submitted all N
\* prepared transactions successfully and reports N hashes, the i-th being
\* the one returned for the i-th transaction, and a live result exists only
\* then
C27_LocalSubmitsEachInOrder ==
    signer.mode = "local" =>
        /\ Len(signed) = Len(SendLog)
        /\ Len(sent) = Len(SendLog)
        /\ Len(signed) <= Len(preflight.transactions)
        /\ \A i \in DOMAIN signed :
               /\ signed[i] = preflight.transactions[i].unsigned_tx
               /\ signed[i].nonce = preflight.nonce_start + i - 1
               /\ sent[i].index = i
               /\ i < Len(signed) => SendLog[i].ok
        /\ (result.mode = "live" \/ pc = "live_executed") =>
               /\ result.mode = "live"
               /\ Len(SendLog) = Len(preflight.transactions)
               /\ \A i \in DOMAIN SendLog : SendLog[i].ok
               /\ Len(result.submitted_tx_hashes) = Len(preflight.transactions)
               /\ \A i \in DOMAIN result.submitted_tx_hashes :
                      result.submitted_tx_hashes[i] = sent[i].index

\* the local signer signed and submitted the approval and the deposit and
\* the execution returned with two hashes
C27_Witness ==
    /\ signer.mode = "local"
    /\ pc = "live_executed"
    /\ Len(preflight.transactions) = 2
    /\ Len(signed) = 2
    /\ signed[1].nonce < signed[2].nonce
    /\ Len(result.submitted_tx_hashes) = 2

(***************************************************************************)
(* Properties of the catalog listing                                       *)
(***************************************************************************)
\* a list_publishers call is under way or has returned
Listing == call.fn = "list_publishers"

\* the object items of the pages from page i on, in page order
RECURSIVE ObjectItems(_, _)
ObjectItems(pages, i) ==
    IF i > Len(pages) THEN << >>
    ELSE SelectSeq(pages[i].items, IsObject) \o ObjectItems(pages, i + 1)

\* the page ends the listing: it reports no more pages or holds no object
LastPage(page) ==
    \/ ~page.has_more
    \/ \A i \in DOMAIN page.items : ~page.items[i].object

SyncStep == pc = "planned" /\ pc' # pc

\* a read of the step failed
ReadFailed == \E i \in DOMAIN NewRequests : ~NewRequests[i].ok

\* what position sync does, by the configuration and the outcome of its reads
SyncOutcome ==
    IF ~cfg.position_sync_enabled
    THEN /\ position_sync' = "skipped"
         /\ rpc_log' = rpc_log
         /\ pc' = "synced"
    ELSE /\ NewRequests # << >>
         /\ NewRequests[1].rpc = "eth_getBalance"
         /\ ReadFailed =>
                IF dry_run \/ ~inputs.live_mode
                THEN position_sync' = "warning" /\ pc' = "synced" /\ error' = ""
                ELSE pc' = "error" /\ error' = "ConfigError"
         /\ ~ReadFailed => position_sync' = "ok" /\ pc' = "synced"

\* C29: with position sync enabled and a failed read the run goes on to
\* preflight with position_sync warning when dry_run is true or live_mode
\* is false, and fails with ConfigError before preflight when live_mode is
\* true and dry_run is false, with or without --yes-live; with position
\* sync disabled no balance request is issued and the status is skipped
C29_SyncFailureByMode ==
    /\ [][SyncStep => SyncOutcome]_vars
    /\ [](~cfg.position_sync_enabled =>
             /\ position_sync = "skipped"
             /\ RequestsOf("eth_getBalance") = {})
    /\ []((position_sync = "warning" /\ pc \in {"dry_run_reported", "done"}
             /\ error = "") => PreflightDone)

\* a live run without --yes-live whose balance read failed ended with
\* ConfigError before any transaction was built
C29_Witness ==
    /\ cfg.position_sync_enabled
    /\ inputs.live_mode /\ ~dry_run /\ ~args.yes_live
    /\ pc = "done"
    /\ error = "ConfigError"
    /\ rpc_log # << >>
    /\ rpc_log[Len(rpc_log)].rpc = "eth_getBalance"
    /\ ~rpc_log[Len(rpc_log)].ok
    /\ tx_calls = << >>
    /\ ~PreflightDone

\* some entry of signed_raw_transactions is not 0x-prefixed hex
HasMalformedEntry ==
    \E i \in DOMAIN cfg.ledger_signed_raw :
        ~_normalize_hex_bytes(cfg.ledger_signed_raw[i]).ok

\* C30: in ledger signer mode execute_live_trade validates all of
\* signed_raw_transactions before it submits anything: with a malformed
\* entry at any index no eth_sendRawTransaction is issued, and the
\* execution ends with ConfigError
C30_Original ==
    /\ [](signer.mode = "ledger" /\ HasMalformedEntry =>
             RequestsOf("eth_sendRawTransaction") = {})
    /\ [][(LedgerExecution /\ HasMalformedEntry /\ pc' # pc) =>
              /\ error' = "ConfigError"
              /\ rpc_log' = rpc_log]_vars

\* the part of C30 the code keeps: a malformed first entry ends the
\* execution with ConfigError and nothing submitted
C30_MalformedFirstEntry ==
    [][(/\ LedgerExecution
        /\ Len(cfg.ledger_signed_raw) = Len(preflight.transactions)
        /\ Len(cfg.ledger_signed_raw) > 0
        /\ ~_normalize_hex_bytes(cfg.ledger_signed_raw[1]).ok
        /\ pc' # pc) =>
           /\ error' = "ConfigError"
           /\ rpc_log' = rpc_log
           /\ sent' = sent]_vars

\* the ledger flow submitted the first raw transaction and then rejected the
\* second as malformed
C30_PartialSubmission ==
    /\ signer.mode = "ledger"
    /\ cfg.ledger_signed_raw = << "0xsigned0", "not-hex" >>
    /\ error = "ConfigError"
    /\ Len(sent) = 1
    /\ Cardinality(RequestsOf("eth_sendRawTransaction")) = 1

=============================================================================
